---- MODULE Spec2Model ----
(* Verification model of gto-poker-trainer: the card model (src/cards.rs),   *)
(* the hand evaluator and Monte Carlo equity estimator (src/equity.rs), the  *)
(* opponent profile (src/rival.rs) and the hand / session state machine      *)
(* (src/session.rs).                                                         *)
(*                                                                           *)
(* Representation.  f32 big-blind amounts are fixed point, BB units to the   *)
(* big blind: the amounts the state machine produces (opens 2/2.5/3, the    *)
(* 9bb 3-bet, bets of 1/2, 3/5 and 3/4 pot, half a difference) are whole     *)
(* numbers of units.  Probabilities and EVs are exact rationals held         *)
(* as integer numerators over the denominators named below.  The StdRng      *)
(* stream is a deterministic generator over a small state space: every draw  *)
(* steps the state and is a function of it.                                  *)
EXTENDS Integers, Sequences, FiniteSets, TLC

\* ------------------------------------------------------------------ bounds

\* seeds tried for SessionConfig.seed: 0..MaxSeed
MaxSeed == 0
\* SessionConfig.hands ranges over 1..MaxHands
MaxHands == 2
\* SessionConfig.mc_samples ranges over 1..MaxSamples
MaxSamples == 1
\* apply_action calls explored per session that reach the hand
MaxCalls == 4
\* of them, calls with an action absent from the menu
MaxRejected == 1

\* seeds tried for TrainerConfig.seed under autoplay: 0..MaxAutoplaySeed
MaxAutoplaySeed == 3

\* monte_carlo_equity is called with 0..MaxHeroCards hero cards and
\* 0..MaxBoardCards known board cards, on streams seeded 0..MaxEquitySeed
MaxHeroCards == 3
MaxBoardCards == 6
MaxEquitySeed == 1
\* and with a villain of 0..MaxVillainCards cards, or none, and
\* 0..MaxEquitySamples samples
MaxVillainCards == 3
\* the number of requests in flight on one session, and the number of
\* requests received
MaxRequests == 2
MaxWebCalls == 2

\* the largest number of samples behind an equity given to fold_probability
MaxRivalSamples == 4

\* the number of cards of BestPool the card sets are drawn from, and the
\* largest number of cards given to best_five_card_hand
MaxBestPool == 9
MaxBestCards == 7

\* the number of cards of EvalPool the evaluated five-card hands are drawn from
MaxPoolCards == 15

MaxEquitySamples == 2

\* ------------------------------------------------------------ card model

\* Option<T>: None is the empty sequence, Some(v) the one-element sequence
None == <<>>
Some(v) == <<v>>

Min(a, b) == IF a <= b THEN a ELSE b
Max(a, b) == IF a >= b THEN a ELSE b
Abs(a) == IF a >= 0 THEN a ELSE -a

\* let v = value; F(v): the value is computed once and named in F
Bind(value, F(_)) == F(value)

\* Suit::ALL, in declaration order: Clubs, Diamonds, Hearts, Spades
SuitAll == <<"Clubs", "Diamonds", "Hearts", "Spades">>
\* Rank::ALL as Rank::value(): Two = 2 .. Ace = 14
RankAll == <<2, 3, 4, 5, 6, 7, 8, 9, 10, 11, 12, 13, 14>>
Ace == RankAll[Len(RankAll)]

\* Card { rank, suit }: the pair packed as one number, 100 * (index of the
\* suit in Suit::ALL) + rank value, so that equality is equality of both
Card(rank, suit) == 100 * suit + rank
\* Card::rank_value
rank_value(c) == c % 100
\* Card.suit, as the index in Suit::ALL
suit_of(c) == c \div 100

\* standard_deck: for suit in Suit::ALL, for rank in Rank::ALL, push
standard_deck ==
  [i \in 1..(Len(SuitAll) * Len(RankAll)) |->
     Card(RankAll[((i - 1) % Len(RankAll)) + 1], ((i - 1) \div Len(RankAll)) + 1)]

\* Vec::retain(|c| c != card)
retain(deck, card) == SelectSeq(deck, LAMBDA c : c # card)

\* for card in cards { deck.retain(|c| c != card) }
RECURSIVE retain_all(_, _)
retain_all(deck, cards) ==
  IF cards = <<>> THEN deck ELSE retain_all(retain(deck, Head(cards)), Tail(cards))

\* ---------------------------------------------------------- random stream

\* the generator's state space and step (StdRng stands behind this interface)
RngMod == 65536
RngMul == 25173
RngInc == 13849
\* StdRng::seed_from_u64
seed_from_u64(seed) == (seed * 7919 + 104729) % RngMod
\* one step of the stream
rng_next(rng) == (rng * RngMul + RngInc) % RngMod
\* gen_range(0..n) read off the state after the step
rng_index(rng, n) == (rng \div 256) % n
\* Uniform::new_inclusive(0.0, 1.0).sample: a value rng_unit / UnitDen in [0, 1]
UnitDen == 255
rng_unit(rng) == rng \div 256

\* one iteration of SliceRandom::shuffle's loop
\*   for i in (1..len).rev() { self.swap(i, rng.gen_range(0..=i)) }
\* on st = [deck, rng, i], i the 0-based index about to be swapped
swap_step(st) ==
  LET r == rng_next(st.rng)
      j == rng_index(r, st.i + 1)
  IN [deck |-> [st.deck EXCEPT ![st.i + 1] = st.deck[j + 1], ![j + 1] = st.deck[st.i + 1]],
      rng |-> r,
      i |-> st.i - 1]

\* the next k iterations of the loop, or as many as are left (the loop ends
\* after i = 1); the iterations are run half by half
RECURSIVE shuffle_steps(_, _)
shuffle_steps(st, k) ==
  IF st.i < 1 \/ k = 0 THEN st
  ELSE IF k = 1 THEN swap_step(st)
  ELSE shuffle_steps(shuffle_steps(st, k \div 2), k - (k \div 2))

\* SliceRandom::shuffle: the pair <<deck, rng>>
shuffle(deck, rng) ==
  LET st == shuffle_steps([deck |-> deck, rng |-> rng, i |-> Len(deck) - 1], Len(deck))
  IN <<st.deck, st.rng>>

\* --------------------------------------------------------- hand evaluator

\* HandCategory discriminants
HighCard == 0
OnePair == 1
TwoPair == 2
ThreeOfAKind == 3
Straight == 4
Flush == 5
FullHouse == 6
FourOfAKind == 7
StraightFlush == 8

HandStrength(category, ranks) == [category |-> category, ranks |-> ranks]

\* [u8; 5]::cmp, lexicographic from index i
RECURSIVE ranks_cmp(_, _, _)
ranks_cmp(a, b, i) ==
  IF i > Len(a) THEN "Equal"
  ELSE IF a[i] < b[i] THEN "Less"
  ELSE IF a[i] > b[i] THEN "Greater"
  ELSE ranks_cmp(a, b, i + 1)

\* Ord for HandStrength with the fault of comparing the ranks before the
\* category
strength_cmp_ranks_first(a, b) ==
  IF ranks_cmp(a.ranks, b.ranks, 1) # "Equal" THEN ranks_cmp(a.ranks, b.ranks, 1)
  ELSE IF a.category < b.category THEN "Less"
  ELSE IF a.category > b.category THEN "Greater"
  ELSE "Equal"

\* Ord for HandStrength: category, then ranks
strength_cmp(a, b) ==
  IF a.category < b.category THEN "Less"
  ELSE IF a.category > b.category THEN "Greater"
  ELSE ranks_cmp(a.ranks, b.ranks, 1)

\* compare_strength with the fault of reporting the weaker hand as equal
compare_strength_never_less(a, b) ==
  IF strength_cmp(a, b) = "Less" THEN "Equal" ELSE strength_cmp(a, b)

\* compare_strength
compare_strength(a, b) == strength_cmp(a, b)

\* fill: resize to 5 with zeros
fill(values) == [i \in 1..5 |-> IF i <= Len(values) THEN values[i] ELSE 0]

\* sort_unstable_by(|a, b| b.cmp(a)) on u8 values
sort_desc(s) == SortSeq(s, LAMBDA a, b : a > b)

\* groups.sort_by(|a, b| b.0.cmp(&a.0).then_with(|| b.1.cmp(&a.1))) on the
\* (count, rank) pairs g: by count descending, then rank descending
groups_sorted(g) ==
  SortSeq(g, LAMBDA p, q : p[1] > q[1] \/ (p[1] = q[1] /\ p[2] > q[2]))

RECURSIVE select_seq_count(_, _)
\* groups.iter().filter(|(c, _)| *c == n).map(|(_, r)| *r)
select_seq_count(groups, n) ==
  IF groups = <<>> THEN <<>>
  ELSE IF Head(groups)[1] = n THEN <<Head(groups)[2]>> \o select_seq_count(Tail(groups), n)
       ELSE select_seq_count(Tail(groups), n)

\* groups.iter().find(|(c, _)| *c == 1).map(|(_, r)| *r).unwrap_or(0)
first_single(groups) ==
  LET s == select_seq_count(groups, 1) IN IF s = <<>> THEN 0 ELSE s[1]

\* counts[r] of evaluate_five: the cards of rank r among the five
count_of(rs, r) ==
  (IF rs[1] = r THEN 1 ELSE 0) + (IF rs[2] = r THEN 1 ELSE 0)
    + (IF rs[3] = r THEN 1 ELSE 0) + (IF rs[4] = r THEN 1 ELSE 0)
    + (IF rs[5] = r THEN 1 ELSE 0)

\* evaluate_five with the fault of a mask without the Ace-low bit
evaluate_five_no_wheel(cards) ==
  Bind([i \in 1..5 |-> rank_value(cards[i])], LAMBDA rs :
  Bind({rs[i] : i \in 1..5}, LAMBDA present :
  Bind(present, LAMBDA mask :
  Bind({h \in 5..14 : \A i \in 0..4 : (h - i) \in mask}, LAMBDA highs :
  Bind(IF highs = {} THEN 0 ELSE CHOOSE h \in highs : \A k \in highs : k <= h,
       LAMBDA straight_high :
  Bind(SelectSeq(RankAll, LAMBDA r : r \in present), LAMBDA ranked :
  Bind(groups_sorted([k \in 1..Len(ranked) |-> <<count_of(rs, ranked[k]), ranked[k]>>]),
       LAMBDA groups :
  Bind(\A i \in 2..5 : suit_of(cards[i]) = suit_of(cards[1]), LAMBDA is_flush :
    LET count == groups[1][1]
        rank == groups[1][2]
        second_is_pair == Len(groups) >= 2 /\ groups[2][1] = 2
        run == <<straight_high, straight_high - 1, straight_high - 2,
                 straight_high - 3, straight_high - 4>>
    IN IF is_flush /\ straight_high # 0
         THEN HandStrength(StraightFlush, fill(run))
       ELSE IF count = 4
         THEN HandStrength(FourOfAKind, fill(<<rank, first_single(groups)>>))
       ELSE IF count = 3 /\ second_is_pair
         THEN HandStrength(FullHouse, fill(<<rank, groups[2][2]>>))
       ELSE IF is_flush
         THEN HandStrength(Flush, fill(sort_desc(rs)))
       ELSE IF straight_high # 0
         THEN HandStrength(Straight, fill(run))
       ELSE IF count = 3
         THEN HandStrength(ThreeOfAKind,
                           fill(<<rank>> \o sort_desc(select_seq_count(groups, 1))))
       ELSE IF count = 2 /\ second_is_pair
         THEN HandStrength(TwoPair, fill(<<rank, groups[2][2], first_single(groups)>>))
       ELSE IF count = 2
         THEN HandStrength(OnePair,
                           fill(<<rank>> \o sort_desc(select_seq_count(groups, 1))))
       ELSE HandStrength(HighCard, fill(sort_desc(rs)))))))))))

\* evaluate_five; present is the ranks r with counts[r] > 0, ranked the same
\* in the order of the counts array, the mask is the set of present's bits,
\* straight_high is 0 for None, and suits.contains(&5) is "all five cards
\* have the suit of the first"
evaluate_five(cards) ==
  Bind([i \in 1..5 |-> rank_value(cards[i])], LAMBDA rs :
  Bind({rs[i] : i \in 1..5}, LAMBDA present :
  Bind(present \cup (IF Ace \in present THEN {1} ELSE {}), LAMBDA mask :
  Bind({h \in 5..14 : \A i \in 0..4 : (h - i) \in mask}, LAMBDA highs :
  Bind(IF highs = {} THEN 0 ELSE CHOOSE h \in highs : \A k \in highs : k <= h,
       LAMBDA straight_high :
  Bind(SelectSeq(RankAll, LAMBDA r : r \in present), LAMBDA ranked :
  Bind(groups_sorted([k \in 1..Len(ranked) |-> <<count_of(rs, ranked[k]), ranked[k]>>]),
       LAMBDA groups :
  Bind(\A i \in 2..5 : suit_of(cards[i]) = suit_of(cards[1]), LAMBDA is_flush :
    LET count == groups[1][1]
        rank == groups[1][2]
        second_is_pair == Len(groups) >= 2 /\ groups[2][1] = 2
        run == <<straight_high, straight_high - 1, straight_high - 2,
                 straight_high - 3, straight_high - 4>>
    IN IF is_flush /\ straight_high # 0
         THEN HandStrength(StraightFlush, fill(run))
       ELSE IF count = 4
         THEN HandStrength(FourOfAKind, fill(<<rank, first_single(groups)>>))
       ELSE IF count = 3 /\ second_is_pair
         THEN HandStrength(FullHouse, fill(<<rank, groups[2][2]>>))
       ELSE IF is_flush
         THEN HandStrength(Flush, fill(sort_desc(rs)))
       ELSE IF straight_high # 0
         THEN HandStrength(Straight, fill(run))
       ELSE IF count = 3
         THEN HandStrength(ThreeOfAKind,
                           fill(<<rank>> \o sort_desc(select_seq_count(groups, 1))))
       ELSE IF count = 2 /\ second_is_pair
         THEN HandStrength(TwoPair, fill(<<rank, groups[2][2], first_single(groups)>>))
       ELSE IF count = 2
         THEN HandStrength(OnePair,
                           fill(<<rank>> \o sort_desc(select_seq_count(groups, 1))))
       ELSE HandStrength(HighCard, fill(sort_desc(rs)))))))))))

\* Itertools::combinations(5) with the fault of taking only five neighbouring
\* positions
combinations5_windows(n) ==
  {<<i, i + 1, i + 2, i + 3, i + 4>> : i \in 1..(n - 4)}

\* Itertools::combinations(5) over n positions: the increasing index tuples
combinations5(n) ==
  {t \in (1..(n - 4)) \X (2..(n - 3)) \X (3..(n - 2)) \X (4..(n - 1)) \X (5..n) :
     t[1] < t[2] /\ t[2] < t[3] /\ t[3] < t[4] /\ t[4] < t[5]}

\* Iterator::max over the evaluated combinations
max_strength(S) == CHOOSE m \in S : \A x \in S : strength_cmp(x, m) # "Greater"

\* a panic: a failed assert! or expect, an index out of bounds
Panic == [panic |-> TRUE]

\* best_five_card_hand; Panic for the failed assert!(cards.len() >= 5)
best_five_card_hand(cards) ==
  IF Len(cards) < 5 THEN Panic
  ELSE max_strength({evaluate_five([i \in 1..5 |-> cards[t[i]]]) :
                       t \in combinations5(Len(cards))})

\* ------------------------------------------------------ equity estimator

\* the dealing of a sample with the fault of leaving the known board cards in
\* the deck
mc_deal_board_kept(hero, villain, board_known, rng) ==
  Bind(shuffle(retain_all(standard_deck,
                          hero \o (IF villain = None THEN <<>> ELSE villain[1])),
               rng), LAMBDA sh :
    LET deck == sh[1]
        n == Len(deck)
        drawn == IF villain = None THEN 2 ELSE 0
        cards_needed == Max(5 - Len(board_known), 0)
    IN IF (villain # None /\ Len(villain[1]) < 2) \/ n < drawn + cards_needed
         THEN [panic |-> TRUE, villain_cards |-> <<>>, board |-> <<>>, rng |-> sh[2]]
       ELSE [panic |-> FALSE,
             villain_cards |-> IF villain = None THEN <<deck[n], deck[n - 1]>>
                               ELSE <<villain[1][1], villain[1][2]>>,
             board |-> board_known
                         \o [i \in 1..cards_needed |-> deck[n - drawn - i + 1]],
             rng |-> sh[2]])

\* the dealing of one iteration of the sample loop: the deck without the
\* given cards is shuffled, the opponent's two cards are the fixed ones or the
\* two popped first, and the board is completed to 5 cards from the deck;
\* [panic, villain_cards, board, rng], panic for an index out of bounds or
\* an empty deck
mc_deal(hero, villain, board_known, rng) ==
  Bind(shuffle(retain_all(standard_deck,
                          hero \o (IF villain = None THEN <<>> ELSE villain[1])
                               \o board_known),
               rng), LAMBDA sh :
    LET deck == sh[1]
        n == Len(deck)
        drawn == IF villain = None THEN 2 ELSE 0
        cards_needed == Max(5 - Len(board_known), 0)
    IN IF (villain # None /\ Len(villain[1]) < 2) \/ n < drawn + cards_needed
         THEN [panic |-> TRUE, villain_cards |-> <<>>, board |-> <<>>, rng |-> sh[2]]
       ELSE [panic |-> FALSE,
             villain_cards |-> IF villain = None THEN <<deck[n], deck[n - 1]>>
                               ELSE <<villain[1][1], villain[1][2]>>,
             board |-> board_known
                         \o [i \in 1..cards_needed |-> deck[n - drawn - i + 1]],
             rng |-> sh[2]])

\* one iteration of the sample loop of monte_carlo_equity:
\* [panic, score2, rng] with score2 = 2 * (1 / 0.5 / 0); villain is an
\* Option of a card sequence
mc_sample(hero, villain, board_known, rng) ==
  Bind(mc_deal(hero, villain, board_known, rng), LAMBDA d :
    IF d.panic THEN [panic |-> TRUE, score2 |-> 0, rng |-> d.rng]
    ELSE
      Bind(compare_strength(best_five_card_hand(hero \o d.board),
                            best_five_card_hand(d.villain_cards \o d.board)),
           LAMBDA ord :
        [panic |-> FALSE,
         score2 |-> IF ord = "Greater" THEN 2 ELSE IF ord = "Equal" THEN 1 ELSE 0,
         rng |-> d.rng]))

\* the sample loop on acc = [panic, w, n, rng], w = 2 * equity_sum so far
RECURSIVE mc_loop(_, _, _, _, _)
mc_loop(hero, villain, board_known, left, acc) ==
  IF left = 0 \/ acc.panic THEN acc
  ELSE mc_loop(hero, villain, board_known, left - 1,
               Bind(mc_sample(hero, villain, board_known, acc.rng), LAMBDA s :
                 [acc EXCEPT !.panic = s.panic, !.w = acc.w + s.score2,
                             !.rng = s.rng]))

\* monte_carlo_equity with the fault of leaving samples as given, 0 included
monte_carlo_equity_unfloored(hero, villain, board_known, samples, rng) ==
  LET n == samples
  IN IF Len(hero) # 2 THEN [panic |-> TRUE, w |-> 0, n |-> n, rng |-> rng]
     ELSE mc_loop(hero, villain, board_known, n,
                  [panic |-> FALSE, w |-> 0, n |-> n, rng |-> rng])

\* monte_carlo_equity: [panic, w, n, rng]; the equity returned is w / (2 * n)
\* with n = samples.max(1); panic for the failed assert!(hero.len() == 2)
monte_carlo_equity(hero, villain, board_known, samples, rng) ==
  LET n == Max(samples, 1)
  IN IF Len(hero) # 2 THEN [panic |-> TRUE, w |-> 0, n |-> n, rng |-> rng]
     ELSE mc_loop(hero, villain, board_known, n,
                  [panic |-> FALSE, w |-> 0, n |-> n, rng |-> rng])

\* -------------------------------------------------------- opponent profile

\* RivalProfile::resolve; the f32 parameters in hundredths
resolve(style) ==
  CASE style = "Balanced" ->
         [name |-> "balanced", preflop_fold_to_three_bet |-> 48,
          flop_continuation_bet |-> 62, turn_barrel_frequency |-> 52,
          river_probe_frequency |-> 33, aggression |-> 50]
    [] style = "Aggressive" ->
         [name |-> "aggressive", preflop_fold_to_three_bet |-> 38,
          flop_continuation_bet |-> 71, turn_barrel_frequency |-> 64,
          river_probe_frequency |-> 47, aggression |-> 68]
    [] style = "Passive" ->
         [name |-> "passive", preflop_fold_to_three_bet |-> 57,
          flop_continuation_bet |-> 44, turn_barrel_frequency |-> 36,
          river_probe_frequency |-> 21, aggression |-> 32]

RivalStyle == {"Balanced", "Aggressive", "Passive"}

\* f32::clamp with the fault of leaving out the upper bound
clamp_floor_only(v, lo, hi) == IF v < lo THEN lo ELSE v

\* f32::clamp
clamp(v, lo, hi) == IF v < lo THEN lo ELSE IF v > hi THEN hi ELSE v

\* RivalProfile::hand_strength_hint, as a numerator over 2800
\* (base = (r0 + r1) / 28, +0.25 pair, else +0.08 connectors, +0.05 suited)
hand_strength_hint(hero_cards) ==
  LET r0 == rank_value(hero_cards[1])
      r1 == rank_value(hero_cards[2])
      connectors == Abs(r0 - r1) <= 1
      pair == r0 = r1
      suited == suit_of(hero_cards[1]) = suit_of(hero_cards[2])
      base == (r0 + r1) * 100
      s1 == IF pair THEN base + 700 ELSE IF connectors THEN base + 224 ELSE base
      s2 == IF suited THEN s1 + 140 ELSE s1
  IN clamp(s2, 0, 2800)

\* RivalProfile::fold_to_three_bet, as a numerator over 8000:
\* (0.5 - h / 2800) * 0.35 = (1400 - h) / 8000
fold_to_three_bet(profile, hero_strength) ==
  clamp(profile.preflop_fold_to_three_bet * 80 + (1400 - hero_strength), 400, 6800)

continuation_bet_flop(profile) == profile.flop_continuation_bet
barrel_turn(profile) == profile.turn_barrel_frequency
probe_river(profile) == profile.river_probe_frequency

\* RivalProfile::random_fold: one draw u / UnitDen, compared with the
\* probability num / den; the pair <<fold, rng>>
random_fold(rng, num, den) ==
  LET r == rng_next(rng) IN <<rng_unit(r) * den < num * UnitDen, r>>

\* ----------------------------------------------------- hand state machine

\* DEFAULT_THREE_BET with the fault of a raise to 30bb
DEFAULT_THREE_BET_deep == 30 * 40

\* amounts: units to the big blind (a unit is 1/40 bb)
BB == 40
MAX_STACK_BB == 100 * BB
OPEN_SIZES == <<2 * BB, (5 * BB) \div 2, 3 * BB>>
DEFAULT_THREE_BET == 9 * BB

\* an EV of v big blinds is held as the numerator v * EvDen(n), where n is
\* the number of Monte Carlo samples behind the equity
EvDen(n) == 8000 * BB * n * n

\* format!("{:.k}", v) of v = num / den >= 0 scaled to the printed digits:
\* the nearest whole number, ties to even
fmt_round(num, den) ==
  LET q == num \div den
      r == num % den
  IN IF 2 * r > den THEN q + 1
     ELSE IF 2 * r = den THEN q + (q % 2)
     ELSE q

\* x * (num / den) on amounts
mul_frac(x, num, den) == (x * num) \div den

HeroActionKind == {"Fold", "Call", "Check", "Bet", "Raise"}
HeroAction(kind, size_bb) == [kind |-> kind, size_bb |-> size_bb]
ActionOption(action, ev_delta_bb, description) ==
  [action |-> action, ev_delta_bb |-> ev_delta_bb, description |-> description]

\* effective_stack with the fault of reading hero's remaining stack alone
effective_stack_hero_only(hero_invested, villain_invested) ==
  Max(MAX_STACK_BB - hero_invested, 0)

\* effective_stack
effective_stack(hero_invested, villain_invested) ==
  LET hero_remaining == Max(MAX_STACK_BB - hero_invested, 0)
      villain_remaining == Max(MAX_STACK_BB - villain_invested, 0)
  IN Min(hero_remaining, villain_remaining)

\* fold_probability, as a numerator over 1000 * n for equity = w / (2 * n)
fold_probability(profile, w, n, street) ==
  LET base == CASE street = "Flop" -> 400
                [] street = "Turn" -> 350
                [] street = "River" -> 300
                [] OTHER -> 450
      aggression_metric == CASE street = "Flop" -> continuation_bet_flop(profile)
                             [] street = "Turn" -> barrel_turn(profile)
                             [] street = "River" -> probe_river(profile)
                             [] OTHER -> 50
      aggression_adjust == (50 - aggression_metric) * 3 * n
      equity_adjust == (n - w) * 175
      raw == base * n + aggression_adjust + equity_adjust
  IN clamp(raw, 50 * n, 900 * n)

\* Hand::new: the pair [hand, rng]
Hand_new(rng0) ==
  Bind(shuffle(standard_deck, rng0), LAMBDA sh :
    LET deck == sh[1]
        n == Len(deck)
        r == rng_next(sh[2])
        open_size == OPEN_SIZES[rng_index(r, Len(OPEN_SIZES)) + 1]
    IN [hand |->
          [hero |-> <<deck[n], deck[n - 1]>>,
           villain |-> <<deck[n - 2], deck[n - 3]>>,
           board |-> <<deck[n - 4], deck[n - 5], deck[n - 6], deck[n - 7], deck[n - 8]>>,
           open_size |-> open_size,
           raise_size |-> DEFAULT_THREE_BET,
           state |-> [street |-> "Preflop",
                      pot_bb |-> open_size + BB,
                      hero_invested_bb |-> BB,
                      villain_invested_bb |-> open_size,
                      board_revealed |-> 0,
                      effective_stack_bb |-> effective_stack(BB, open_size)],
           options |-> <<>>,
           current_best_ev |-> 0,
           total_best_ev |-> 0,
           total_chosen_ev |-> 0,
           completed |-> FALSE,
           trail |-> <<"Preflop">>,
           decisions |-> <<>>,
           menu_of |-> None],
        rng |-> r])

\* Hand::visible_board
visible_board(h) == SubSeq(h.board, 1, h.state.board_revealed)

\* Hand::refresh_state with the fault of leaving the pot as it was
refresh_state_stale_pot(h) ==
  [h EXCEPT !.state.effective_stack_bb =
               effective_stack(h.state.hero_invested_bb, h.state.villain_invested_bb)]

\* Hand::refresh_state
refresh_state(h) ==
  [h EXCEPT !.state.pot_bb = h.state.hero_invested_bb + h.state.villain_invested_bb,
            !.state.effective_stack_bb =
               effective_stack(h.state.hero_invested_bb, h.state.villain_invested_bb)]

\* (decisions, with trail, is history: the menu EVs and the chosen EV of every
\* action the hand accepted; menu_of, history too, is the state and the
\* stream that compute_options computed the hand's menu on)
\* the assignment self.state.street = target; trail is the history of the
\* values the street has taken in this hand
set_street(h, target) ==
  [h EXCEPT !.state.street = target, !.trail = Append(h.trail, target)]

\* Hand::advance_street with the fault of leaving board_revealed as it was
advance_street_no_reveal(h, target) == refresh_state(set_street(h, target))

\* Hand::advance_street
advance_street(h, target) ==
  LET revealed == CASE target = "Flop" -> 3
                    [] target = "Turn" -> 4
                    [] target = "River" -> 5
                    [] target \in {"Showdown", "Terminal"} -> 5
                    [] target = "Preflop" -> 0
  IN refresh_state([set_street(h, target) EXCEPT !.state.board_revealed = revealed])

\* Hand::current_ev_loss
current_ev_loss(h) == Max(h.total_best_ev - h.total_chosen_ev, 0)

\* HandProgress::InProgress and
\* HandProgress::Completed(HandResult { profit_bb, ev_loss_bb })
InProgress == [completed |-> FALSE, profit_bb |-> 0, ev_loss_bb |-> 0]
Completed(profit_bb, ev_loss_bb) ==
  [completed |-> TRUE, profit_bb |-> profit_bb, ev_loss_bb |-> ev_loss_bb]

\* Hand::finish with the fault of leaving the street as it was
finish_keeps_street(h, profit_bb) ==
  [hand |-> [h EXCEPT !.completed = TRUE],
   progress |-> Completed(profit_bb, current_ev_loss(h))]

\* Hand::finish with the fault of reporting the profit with its sign turned
finish_negated(h, profit_bb) ==
  [hand |-> set_street([h EXCEPT !.completed = TRUE], "Terminal"),
   progress |-> Completed(-profit_bb, current_ev_loss(h))]

\* Hand::finish: the pair [hand, progress]
finish(h, profit_bb) ==
  [hand |-> set_street([h EXCEPT !.completed = TRUE], "Terminal"),
   progress |-> Completed(profit_bb, current_ev_loss(h))]

\* Hand::resolve_showdown with the fault of paying the winner what the loser
\* is owed
resolve_showdown_swapped(h) ==
  Bind(set_street([h EXCEPT !.state.board_revealed = 5], "Showdown"), LAMBDA h1 :
  Bind(compare_strength(best_five_card_hand(h1.hero \o h1.board),
                        best_five_card_hand(h1.villain \o h1.board)), LAMBDA ord :
    finish(h1, CASE ord = "Greater" -> -h1.state.hero_invested_bb
                 [] ord = "Less" -> h1.state.villain_invested_bb
                 [] ord = "Equal" ->
                      (h1.state.villain_invested_bb - h1.state.hero_invested_bb) \div 2)))

\* Hand::resolve_showdown: the pair [hand, progress]
resolve_showdown(h) ==
  Bind(set_street([h EXCEPT !.state.board_revealed = 5], "Showdown"), LAMBDA h1 :
  Bind(compare_strength(best_five_card_hand(h1.hero \o h1.board),
                        best_five_card_hand(h1.villain \o h1.board)), LAMBDA ord :
    finish(h1, CASE ord = "Greater" -> h1.state.villain_invested_bb
                 [] ord = "Less" -> -h1.state.hero_invested_bb
                 [] ord = "Equal" ->
                      (h1.state.villain_invested_bb - h1.state.hero_invested_bb) \div 2)))

\* Hand::compute_preflop_options: the pair [options, rng]
compute_preflop_options(h, rng0, profile, samples) ==
  Bind(monte_carlo_equity(h.hero, None, <<>>, samples, rng0), LAMBDA eq :
  Bind(fold_to_three_bet(profile, hand_strength_hint(h.hero)), LAMBDA fold_prob :
    LET w == eq.w
        n == eq.n
        call_cost == Max(h.open_size - h.state.hero_invested_bb, 0)
        pot_after_call == 2 * h.open_size
        call_ev == (w * pot_after_call - (2 * n - w) * call_cost) * 4000 * n
        pot_before_raise == h.state.pot_bb
        raise_to == h.raise_size
        raise_cost == Max(raise_to - h.state.hero_invested_bb, 0)
        pot_when_called == 2 * raise_to
        raise_ev == ((fold_prob * pot_before_raise * 2 * n
                       + (8000 - fold_prob)
                           * (w * pot_when_called - (2 * n - w) * raise_cost)) \div 2) * n
    IN [options |->
          << ActionOption(HeroAction("Fold", None),
                          (-h.state.hero_invested_bb) * 8000 * n * n,
                          <<"Fold and surrender the blind">>),
             ActionOption(HeroAction("Call", Some(h.open_size)),
                          call_ev,
                          <<"Flat call {:.1}bb open (equity {:.1}%)",
                            fmt_round(h.open_size * 10, BB),
                            fmt_round(w * 1000, 2 * n)>>),
             ActionOption(HeroAction("Raise", Some(raise_to)),
                          raise_ev,
                          <<"3-bet to {:.1}bb (fold equity {:.0}%)",
                            fmt_round(raise_to * 10, BB),
                            fmt_round(fold_prob * 100, 8000)>>) >>,
        rng |-> eq.rng]))

\* the bet size offered, with the fault of taking half the pot on every street
offered_bet_size_flat(street, pot, effective_stack_bb) ==
  LET floored == Max(mul_frac(pot, 1, 2), BB \div 2)
      capped == Min(floored, Max(effective_stack_bb, 0))
  IN IF capped < BB \div 2 THEN Max(effective_stack_bb, 0) ELSE capped

\* the bet size offered by compute_postflop_options
offered_bet_size(street, pot, effective_stack_bb) ==
  LET sized == CASE street = "Flop" -> mul_frac(pot, 1, 2)
                 [] street = "Turn" -> mul_frac(pot, 3, 5)
                 [] street = "River" -> mul_frac(pot, 3, 4)
                 [] OTHER -> mul_frac(pot, 1, 2)
      floored == Max(sized, BB \div 2)
      capped == Min(floored, Max(effective_stack_bb, 0))
  IN IF capped < BB \div 2 THEN Max(effective_stack_bb, 0) ELSE capped

\* Hand::compute_postflop_options: the pair [options, rng]
compute_postflop_options(h, rng0, profile, samples) ==
  Bind(monte_carlo_equity(h.hero, None, visible_board(h), samples, rng0), LAMBDA eq :
  Bind(offered_bet_size(h.state.street, h.state.pot_bb, h.state.effective_stack_bb),
       LAMBDA bet_size :
  Bind(fold_probability(profile, eq.w, eq.n, h.state.street), LAMBDA fold_prob :
    LET w == eq.w
        n == eq.n
        pot == h.state.pot_bb
        check_ev == (w - n) * pot * 8000 * n
        bet_ev == (fold_prob * pot * 2 * n
                    + (1000 * n - fold_prob)
                        * (w * (pot + 2 * bet_size) - (2 * n - w) * bet_size)) * 4
    IN [options |->
          << ActionOption(HeroAction("Check", None),
                          check_ev,
                          <<"Check and realise equity ({:.1}% share)",
                            fmt_round(w * 1000, 2 * n)>>),
             ActionOption(HeroAction("Bet", Some(bet_size)),
                          bet_ev,
                          <<"Bet {:.1}bb ({:.0}% fold equity)",
                            fmt_round(bet_size * 10, BB),
                            fmt_round(fold_prob * 100, 1000 * n)>>) >>,
        rng |-> eq.rng])))

\* the best EV with the fault of taking the first option's
best_ev_first(options) == IF options = <<>> THEN 0 ELSE options[1].ev_delta_bb

\* options.iter().map(|opt| opt.ev_delta_bb).fold(NEG_INFINITY, f32::max),
\* 0.0 when that is not finite (no option)
best_ev(options) ==
  IF options = <<>> THEN 0
  ELSE LET evs == {options[i].ev_delta_bb : i \in 1..Len(options)}
       IN CHOOSE m \in evs : \A e \in evs : e <= m

\* Hand::compute_options with the fault of computing the preflop menu on
\* every street that has one
compute_options_preflop_menu(h, rng0, profile, samples) ==
  Bind(CASE h.state.street \in {"Preflop", "Flop", "Turn", "River"} ->
              compute_preflop_options(h, rng0, profile, samples)
         [] h.state.street \in {"Showdown", "Terminal"} ->
              [options |-> <<>>, rng |-> rng0], LAMBDA r :
    [hand |-> [h EXCEPT !.current_best_ev = best_ev(r.options),
                        !.options = r.options,
                        !.menu_of = Some([state |-> h.state, rng |-> rng0])],
     rng |-> r.rng])

\* Hand::compute_options: the pair [hand, rng]
compute_options(h, rng0, profile, samples) ==
  Bind(CASE h.state.street = "Preflop" ->
              compute_preflop_options(h, rng0, profile, samples)
         [] h.state.street \in {"Flop", "Turn", "River"} ->
              compute_postflop_options(h, rng0, profile, samples)
         [] h.state.street \in {"Showdown", "Terminal"} ->
              [options |-> <<>>, rng |-> rng0], LAMBDA r :
    [hand |-> [h EXCEPT !.current_best_ev = best_ev(r.options),
                        !.options = r.options,
                        !.menu_of = Some([state |-> h.state, rng |-> rng0])],
     rng |-> r.rng])

\* call_cost with the fault of charging the whole open, blind included
call_cost_full(h) == h.open_size

\* let call_cost = (self.open_size - self.state.hero_invested_bb).max(0.0)
call_cost(h) == Max(h.open_size - h.state.hero_invested_bb, 0)

\* Hand::apply_preflop with the fault of having the opponent add the whole
\* raise to the open when calling it
apply_preflop_double_call(h, action, option, rng0, profile) ==
  CASE action.kind = "Fold" ->
         Bind(finish(h, -h.state.hero_invested_bb), LAMBDA f :
           [hand |-> f.hand, rng |-> rng0, progress |-> f.progress, fold |-> "hero"])
    [] action.kind = "Call" ->
         [hand |-> advance_street(
                     refresh_state(
                       [h EXCEPT !.state.hero_invested_bb =
                                    h.state.hero_invested_bb + call_cost(h)]),
                     "Flop"),
          rng |-> rng0, progress |-> InProgress, fold |-> "none"]
    [] action.kind = "Raise" ->
         Bind(IF option.action.size_bb = None THEN h.raise_size
              ELSE option.action.size_bb[1], LAMBDA raise_to :
         Bind(refresh_state(
                [h EXCEPT !.state.hero_invested_bb =
                             h.state.hero_invested_bb
                               + Max(raise_to - h.state.hero_invested_bb, 0)]),
              LAMBDA h1 :
         Bind(random_fold(rng0, fold_to_three_bet(profile, hand_strength_hint(h1.hero)),
                          8000), LAMBDA rf :
           IF rf[1]
             THEN Bind(finish(h1, h1.state.villain_invested_bb), LAMBDA f :
                    [hand |-> f.hand, rng |-> rf[2], progress |-> f.progress,
                     fold |-> "villain"])
             ELSE [hand |-> advance_street(
                              refresh_state(
                                [h1 EXCEPT !.state.villain_invested_bb =
                                              h1.state.villain_invested_bb + raise_to]),
                              "Flop"),
                   rng |-> rf[2], progress |-> InProgress, fold |-> "none"])))
    [] OTHER -> [hand |-> h, rng |-> rng0, progress |-> InProgress, fold |-> "none"]

\* Hand::apply_preflop: [hand, rng, progress, fold]; fold records which
\* player folded in the call, "none" when neither did
apply_preflop(h, action, option, rng0, profile) ==
  CASE action.kind = "Fold" ->
         Bind(finish(h, -h.state.hero_invested_bb), LAMBDA f :
           [hand |-> f.hand, rng |-> rng0, progress |-> f.progress, fold |-> "hero"])
    [] action.kind = "Call" ->
         [hand |-> advance_street(
                     refresh_state(
                       [h EXCEPT !.state.hero_invested_bb =
                                    h.state.hero_invested_bb + call_cost(h)]),
                     "Flop"),
          rng |-> rng0, progress |-> InProgress, fold |-> "none"]
    [] action.kind = "Raise" ->
         Bind(IF option.action.size_bb = None THEN h.raise_size
              ELSE option.action.size_bb[1], LAMBDA raise_to :
         Bind(refresh_state(
                [h EXCEPT !.state.hero_invested_bb =
                             h.state.hero_invested_bb
                               + Max(raise_to - h.state.hero_invested_bb, 0)]),
              LAMBDA h1 :
         Bind(random_fold(rng0, fold_to_three_bet(profile, hand_strength_hint(h1.hero)),
                          8000), LAMBDA rf :
           IF rf[1]
             THEN Bind(finish(h1, h1.state.villain_invested_bb), LAMBDA f :
                    [hand |-> f.hand, rng |-> rf[2], progress |-> f.progress,
                     fold |-> "villain"])
             ELSE LET villain_call == Max(raise_to - h1.open_size, 0)
                  IN [hand |-> advance_street(
                                 refresh_state(
                                   [h1 EXCEPT !.state.villain_invested_bb =
                                                 h1.state.villain_invested_bb
                                                   + villain_call]),
                                 "Flop"),
                      rng |-> rf[2], progress |-> InProgress, fold |-> "none"])))
    [] OTHER -> [hand |-> h, rng |-> rng0, progress |-> InProgress, fold |-> "none"]

\* next_street with the fault of going to the River from any street
next_street_skip(street) == "River"

\* the next street of apply_postflop
next_street(street) ==
  CASE street = "Flop" -> "Turn"
    [] street = "Turn" -> "River"
    [] OTHER -> "River"

\* the Bet arm with the fault of the opponent calling half the bet
place_bet_short_call(h, option, rng0, profile, samples, default_num, default_den, street) ==
  Bind(LET given == IF option.action.size_bb = None THEN 0
                    ELSE option.action.size_bb[1]
           sized == IF given <= 0
                      THEN Max(mul_frac(h.state.pot_bb, default_num, default_den),
                               BB \div 2)
                      ELSE given
       IN Min(sized, Max(h.state.effective_stack_bb, 0)), LAMBDA bet_size :
  Bind(refresh_state(
         [h EXCEPT !.state.hero_invested_bb = h.state.hero_invested_bb + bet_size]),
       LAMBDA h1 :
  Bind(monte_carlo_equity(h1.hero, None, visible_board(h1), samples, rng0), LAMBDA eq :
  Bind(random_fold(eq.rng, fold_probability(profile, eq.w, eq.n, street), 1000 * eq.n),
       LAMBDA rf :
    LET call_size == Min(bet_size \div 2, Max(MAX_STACK_BB - h1.state.villain_invested_bb, 0))
    IN [folded |-> rf[1], rng |-> rf[2], bet_size |-> bet_size, hand |-> h1,
        called |-> refresh_state(
                     [h1 EXCEPT !.state.villain_invested_bb =
                                   h1.state.villain_invested_bb + call_size])]))))

\* the Bet arm shared by apply_postflop and apply_river up to the opponent's
\* answer: hero's bet is placed, the equity re-estimated, one fold draw taken.
\* default_num / default_den is the pot share used when the option has no size.
place_bet(h, option, rng0, profile, samples, default_num, default_den, street) ==
  Bind(LET given == IF option.action.size_bb = None THEN 0
                    ELSE option.action.size_bb[1]
           sized == IF given <= 0
                      THEN Max(mul_frac(h.state.pot_bb, default_num, default_den),
                               BB \div 2)
                      ELSE given
       IN Min(sized, Max(h.state.effective_stack_bb, 0)), LAMBDA bet_size :
  Bind(refresh_state(
         [h EXCEPT !.state.hero_invested_bb = h.state.hero_invested_bb + bet_size]),
       LAMBDA h1 :
  Bind(monte_carlo_equity(h1.hero, None, visible_board(h1), samples, rng0), LAMBDA eq :
  Bind(random_fold(eq.rng, fold_probability(profile, eq.w, eq.n, street), 1000 * eq.n),
       LAMBDA rf :
    LET call_size == Min(bet_size, Max(MAX_STACK_BB - h1.state.villain_invested_bb, 0))
    IN [folded |-> rf[1], rng |-> rf[2], bet_size |-> bet_size, hand |-> h1,
        called |-> refresh_state(
                     [h1 EXCEPT !.state.villain_invested_bb =
                                   h1.state.villain_invested_bb + call_size])]))))

\* Hand::apply_postflop with the fault of charging hero a big blind for a
\* Check
apply_postflop_check_pays(h, action, option, rng0, profile, samples) ==
  CASE action.kind = "Check" ->
         [hand |-> advance_street(
                     refresh_state([h EXCEPT !.state.hero_invested_bb =
                                                h.state.hero_invested_bb + BB]),
                     next_street(h.state.street)),
          rng |-> rng0, progress |-> InProgress, fold |-> "none"]
    [] action.kind = "Bet" ->
         Bind(place_bet(h, option, rng0, profile, samples, 1, 2, h.state.street),
              LAMBDA b :
           IF b.folded
             THEN Bind(finish(b.hand, b.hand.state.villain_invested_bb), LAMBDA f :
                    [hand |-> f.hand, rng |-> b.rng, progress |-> f.progress,
                     fold |-> "villain"])
             ELSE [hand |-> advance_street(b.called, next_street(b.called.state.street)),
                   rng |-> b.rng, progress |-> InProgress, fold |-> "none"])
    [] OTHER -> [hand |-> h, rng |-> rng0, progress |-> InProgress, fold |-> "none"]

\* Hand::apply_postflop with the fault of paying hero, on the opponent's
\* fold, hero's own investment
apply_postflop_fold_pays_hero(h, action, option, rng0, profile, samples) ==
  CASE action.kind = "Check" ->
         [hand |-> advance_street(h, next_street(h.state.street)), rng |-> rng0,
          progress |-> InProgress, fold |-> "none"]
    [] action.kind = "Bet" ->
         Bind(place_bet(h, option, rng0, profile, samples, 1, 2, h.state.street),
              LAMBDA b :
           IF b.folded
             THEN Bind(finish(b.hand, b.hand.state.hero_invested_bb), LAMBDA f :
                    [hand |-> f.hand, rng |-> b.rng, progress |-> f.progress,
                     fold |-> "villain"])
             ELSE [hand |-> advance_street(b.called, next_street(b.called.state.street)),
                   rng |-> b.rng, progress |-> InProgress, fold |-> "none"])
    [] OTHER -> [hand |-> h, rng |-> rng0, progress |-> InProgress, fold |-> "none"]

\* Hand::apply_postflop: [hand, rng, progress, fold]
apply_postflop(h, action, option, rng0, profile, samples) ==
  CASE action.kind = "Check" ->
         [hand |-> advance_street(h, next_street(h.state.street)), rng |-> rng0,
          progress |-> InProgress, fold |-> "none"]
    [] action.kind = "Bet" ->
         Bind(place_bet(h, option, rng0, profile, samples, 1, 2, h.state.street),
              LAMBDA b :
           IF b.folded
             THEN Bind(finish(b.hand, b.hand.state.villain_invested_bb), LAMBDA f :
                    [hand |-> f.hand, rng |-> b.rng, progress |-> f.progress,
                     fold |-> "villain"])
             ELSE [hand |-> advance_street(b.called, next_street(b.called.state.street)),
                   rng |-> b.rng, progress |-> InProgress, fold |-> "none"])
    [] OTHER -> [hand |-> h, rng |-> rng0, progress |-> InProgress, fold |-> "none"]

\* Hand::apply_river with the fault of going to showdown, after the
\* opponent's call, with the call left out of the opponent's investment
apply_river_call_unpaid(h, action, option, rng0, profile, samples) ==
  CASE action.kind = "Check" ->
         Bind(resolve_showdown(h), LAMBDA f :
           [hand |-> f.hand, rng |-> rng0, progress |-> f.progress, fold |-> "none"])
    [] action.kind = "Bet" ->
         Bind(place_bet(h, option, rng0, profile, samples, 3, 4, "River"), LAMBDA b :
         Bind(IF b.folded THEN finish(b.hand, b.hand.state.villain_invested_bb)
              ELSE resolve_showdown(b.hand), LAMBDA f :
           [hand |-> f.hand, rng |-> b.rng, progress |-> f.progress,
            fold |-> IF b.folded THEN "villain" ELSE "none"]))
    [] OTHER -> [hand |-> h, rng |-> rng0, progress |-> InProgress, fold |-> "none"]

\* Hand::apply_river: [hand, rng, progress, fold]
apply_river(h, action, option, rng0, profile, samples) ==
  CASE action.kind = "Check" ->
         Bind(resolve_showdown(h), LAMBDA f :
           [hand |-> f.hand, rng |-> rng0, progress |-> f.progress, fold |-> "none"])
    [] action.kind = "Bet" ->
         Bind(place_bet(h, option, rng0, profile, samples, 3, 4, "River"), LAMBDA b :
         Bind(IF b.folded THEN finish(b.hand, b.hand.state.villain_invested_bb)
              ELSE resolve_showdown(b.called), LAMBDA f :
           [hand |-> f.hand, rng |-> b.rng, progress |-> f.progress,
            fold |-> IF b.folded THEN "villain" ELSE "none"]))
    [] OTHER -> [hand |-> h, rng |-> rng0, progress |-> InProgress, fold |-> "none"]

\* self.options.iter().find(|candidate| candidate.action == *action):
\* the index of the first match, 0 for None
find_option(options, action) ==
  LET hits == {i \in 1..Len(options) : options[i].action = action}
  IN IF hits = {} THEN 0 ELSE CHOOSE i \in hits : \A j \in hits : i <= j

\* the history of a decision: the EVs the menu offered and the EV chosen
decision(options, k) ==
  [offered |-> [i \in 1..Len(options) |-> options[i].ev_delta_bb],
   chosen |-> options[k].ev_delta_bb]

\* Hand::apply_action with the fault of adding the best EV to the
\* accumulator before the action is looked up
Hand_apply_action_eager(h, action, rng0, profile, samples) ==
  Bind(find_option(h.options, action), LAMBDA k :
  Bind([h EXCEPT !.total_best_ev = h.total_best_ev + h.current_best_ev], LAMBDA h0 :
    IF k = 0 THEN [hand |-> h0, rng |-> rng0, progress |-> InProgress, fold |-> "none"]
    ELSE
      Bind([h0 EXCEPT !.total_chosen_ev = h.total_chosen_ev + h.options[k].ev_delta_bb,
                      !.decisions = Append(h.decisions, decision(h.options, k))],
           LAMBDA h1 :
        CASE h1.state.street = "Preflop" ->
               apply_preflop(h1, action, h.options[k], rng0, profile)
          [] h1.state.street \in {"Flop", "Turn"} ->
               apply_postflop(h1, action, h.options[k], rng0, profile, samples)
          [] h1.state.street = "River" ->
               apply_river(h1, action, h.options[k], rng0, profile, samples)
          [] h1.state.street \in {"Showdown", "Terminal"} ->
               [hand |-> h1, rng |-> rng0,
                progress |-> Completed(0, current_ev_loss(h1)), fold |-> "none"])))

\* Hand::apply_action: [hand, rng, progress, fold]
Hand_apply_action(h, action, rng0, profile, samples) ==
  Bind(find_option(h.options, action), LAMBDA k :
    IF k = 0 THEN [hand |-> h, rng |-> rng0, progress |-> InProgress, fold |-> "none"]
    ELSE
      Bind([h EXCEPT !.total_best_ev = h.total_best_ev + h.current_best_ev,
                     !.total_chosen_ev = h.total_chosen_ev + h.options[k].ev_delta_bb,
                     !.decisions = Append(h.decisions, decision(h.options, k))],
           LAMBDA h1 :
        CASE h1.state.street = "Preflop" ->
               apply_preflop(h1, action, h.options[k], rng0, profile)
          [] h1.state.street \in {"Flop", "Turn"} ->
               apply_postflop(h1, action, h.options[k], rng0, profile, samples)
          [] h1.state.street = "River" ->
               apply_river(h1, action, h.options[k], rng0, profile, samples)
          [] h1.state.street \in {"Showdown", "Terminal"} ->
               [hand |-> h1, rng |-> rng0,
                progress |-> Completed(0, current_ev_loss(h1)), fold |-> "none"]))

\* Hand::node_snapshot; a card's notation is its rank label and suit symbol
short_label(rank) ==
  CASE rank = 10 -> "T" [] rank = 11 -> "J" [] rank = 12 -> "Q" [] rank = 13 -> "K"
    [] rank = 14 -> "A" [] OTHER -> ToString(rank)
symbol(suit) == SuitAll[suit]
notation(c) == <<short_label(rank_value(c)), symbol(suit_of(c))>>

\* Hand::node_snapshot with the fault of marking the opponent's cards known
\* once the board is full
node_snapshot_full_board(h) ==
  [street |-> h.state.street,
   pot_bb |-> h.state.pot_bb,
   effective_stack_bb |-> Max(h.state.effective_stack_bb, 0),
   board |-> [i \in 1..Min(h.state.board_revealed, Len(h.board)) |-> notation(h.board[i])],
   hero_cards |-> [i \in 1..Len(h.hero) |-> notation(h.hero[i])],
   rival_cards_known |-> h.state.board_revealed = 5,
   action_options |-> h.options]

node_snapshot(h) ==
  [street |-> h.state.street,
   pot_bb |-> h.state.pot_bb,
   effective_stack_bb |-> Max(h.state.effective_stack_bb, 0),
   board |-> [i \in 1..Min(h.state.board_revealed, Len(h.board)) |-> notation(h.board[i])],
   hero_cards |-> [i \in 1..Len(h.hero) |-> notation(h.hero[i])],
   rival_cards_known |-> h.completed,
   action_options |-> h.options]

\* ---------------------------------------------------------------- session

VARIABLES
  rng,           \* Session.rng
  config,        \* Session.config
  profile,       \* Session.profile
  current_hand,  \* Session.current_hand: Option<Hand>
  summary,       \* Session.summary
  last,          \* history: the last apply_action call and what it did
  calls          \* history: apply_action calls so far: [total, rejected], and
                 \* hand: the actions the current hand has accepted

vars == <<rng, config, profile, current_hand, summary, last, calls>>

\* SessionSummary
SessionSummary(hands_played, total_ev_loss_bb, total_profit_bb) ==
  [hands_played |-> hands_played, total_ev_loss_bb |-> total_ev_loss_bb,
   total_profit_bb |-> total_profit_bb]

\* Session::snapshot's result for a session with this hand and summary
SessionState(hand, sum) ==
  IF hand # None
    THEN [hand_index |-> sum.hands_played + 1,
          node |-> node_snapshot(hand[1]),
          status |-> "AwaitingInput",
          summary |-> sum]
    ELSE [hand_index |-> sum.hands_played,
          node |-> [street |-> "Terminal", pot_bb |-> 0, effective_stack_bb |-> 0,
                    board |-> <<>>, hero_cards |-> <<>>, rival_cards_known |-> TRUE,
                    action_options |-> <<>>],
          status |-> "Completed",
          summary |-> sum]

\* what snapshot() returns in the current state
Snapshot == SessionState(current_hand, summary)

\* the samples the session passes on
Samples == config.mc_samples

\* Session::new: the fields of the session built from a configuration
Session_new(cfg) ==
  Bind(Hand_new(seed_from_u64(cfg.seed)), LAMBDA hn :
  Bind(compute_options(hn.hand, hn.rng, resolve(cfg.rival_style), cfg.mc_samples),
       LAMBDA co :
    [rng |-> co.rng, config |-> cfg, profile |-> resolve(cfg.rival_style),
     current_hand |-> Some(co.hand), summary |-> SessionSummary(0, 0, 0)]))

\* the configurations tried
ConfigInputs ==
  [hands : 1..MaxHands, mc_samples : 1..MaxSamples, rival_style : RivalStyle,
   seed : 0..MaxSeed]

Init ==
  \E cfg \in ConfigInputs :
    \E s \in {Session_new(cfg)} :
       /\ config = s.config
       /\ profile = s.profile
       /\ rng = s.rng
       /\ current_hand = s.current_hand
       /\ summary = s.summary
       /\ last = [outcome |-> "new", action |-> None, before |-> None,
                  hand |-> None, progress |-> InProgress, fold |-> "none", nth |-> 0,
                  stream |-> None]
       /\ calls = [total |-> 0, rejected |-> 0, hand |-> 0]

\* Session::snapshot with the fault of computing the menu anew on every call,
\* drawing from the session's stream
SnapshotCall_recomputes ==
  /\ IF current_hand # None /\ ~current_hand[1].completed
       THEN \E co \in {compute_options(current_hand[1], rng, profile, Samples)} :
              current_hand' = Some(co.hand) /\ rng' = co.rng
       ELSE UNCHANGED <<current_hand, rng>>
  /\ UNCHANGED <<config, profile, summary, last, calls>>

\* Session::snapshot (&mut self): options are computed when the hand has none
SnapshotCall ==
  /\ IF current_hand # None /\ current_hand[1].options = <<>> /\ ~current_hand[1].completed
       THEN \E co \in {compute_options(current_hand[1], rng, profile, Samples)} :
              current_hand' = Some(co.hand) /\ rng' = co.rng
       ELSE UNCHANGED <<current_hand, rng>>
  /\ UNCHANGED <<config, profile, summary, last, calls>>

\* the actions a caller may submit: every kind with no size, with each of the
\* fixed sizes, and with each size the menu offers
SizeInputs ==
  {None, Some(DEFAULT_THREE_BET)} \cup {Some(OPEN_SIZES[i]) : i \in 1..Len(OPEN_SIZES)}
    \cup (IF current_hand = None THEN {}
          ELSE {current_hand[1].options[i].action.size_bb :
                  i \in 1..Len(current_hand[1].options)})
ActionInputs == {HeroAction(k, sz) : k \in HeroActionKind, sz \in SizeInputs}

\* the history of an apply_action call: what was submitted (kept when it
\* was on the menu), the session before it, the hand as Hand::apply_action
\* left it with its result r, nth, the call's place among the actions its
\* hand accepted, and stream, the random stream as Hand::apply_action left it
call_history(action, r) ==
  LET accepted == find_option(current_hand[1].options, action) # 0
  IN [outcome |-> IF accepted THEN "accepted" ELSE "rejected",
      action |-> IF accepted THEN Some(action) ELSE None,
      before |-> Some([state |-> Snapshot, hand |-> current_hand[1], rng |-> rng]),
      hand |-> Some(r.hand), progress |-> r.progress, fold |-> r.fold,
      nth |-> IF accepted THEN calls.hand + 1 ELSE 0,
      stream |-> Some(r.rng)]

\* the comparison with the fault of counting one hand too many
session_continues_inclusive(sum, cfg) == sum.hands_played <= cfg.hands

\* self.summary.hands_played < self.config.hands
session_continues(sum, cfg) == sum.hands_played < cfg.hands

\* Session::apply_action on a session that holds a live hand: the fields
\* it leaves, with the history of the call.  recomputed is compute_options on
\* the hand and stream as they are, which is what the InProgress arm computes
\* whenever Hand::apply_action changed neither.
Session_apply_action(action, recomputed) ==
  Bind(Hand_apply_action(current_hand[1], action, rng, profile, Samples), LAMBDA r :
    IF ~r.progress.completed
      THEN Bind(IF r.hand = current_hand[1] /\ r.rng = rng THEN recomputed
                ELSE compute_options(r.hand, r.rng, profile, Samples), LAMBDA co :
             [current_hand |-> Some(co.hand), rng |-> co.rng, summary |-> summary,
              last |-> call_history(action, r)])
      ELSE Bind(SessionSummary(summary.hands_played + 1,
                               summary.total_ev_loss_bb + r.progress.ev_loss_bb,
                               summary.total_profit_bb + r.progress.profit_bb),
                LAMBDA sum :
             IF session_continues(sum, config)
               THEN Bind(Hand_new(r.rng), LAMBDA hn :
                    Bind(compute_options(hn.hand, hn.rng, profile, Samples), LAMBDA co :
                      [current_hand |-> Some(co.hand), rng |-> co.rng, summary |-> sum,
                       last |-> call_history(action, r)]))
               ELSE [current_hand |-> None, rng |-> r.rng, summary |-> sum,
                     last |-> call_history(action, r)]))

\* the calls explored from the current state: within MaxCalls, and an action
\* absent from the menu within MaxRejected
CallAllowed(action) ==
  /\ calls.total < MaxCalls
  /\ \/ find_option(current_hand[1].options, action) # 0
     \/ calls.rejected < MaxRejected

\* the results of Session::apply_action over the inputs
ApplyResults ==
  Bind(compute_options(current_hand[1], rng, profile, Samples), LAMBDA recomputed :
    {Session_apply_action(action, recomputed) :
       action \in {a \in ActionInputs : CallAllowed(a)}})

\* Session::apply_action with the fault of counting a hand when the session
\* holds none
ApplyAction_counts_on ==
  IF current_hand = None \/ current_hand[1].completed
    THEN /\ last' = [outcome |-> "ignored", action |-> None, before |-> None,
                     hand |-> None, progress |-> InProgress, fold |-> "none",
                     nth |-> 0, stream |-> None]
         /\ summary' = [summary EXCEPT !.hands_played = @ + 1]
         /\ UNCHANGED <<rng, config, profile, current_hand, calls>>
    ELSE \E res \in ApplyResults :
           /\ current_hand' = res.current_hand
           /\ rng' = res.rng
           /\ summary' = res.summary
           /\ last' = res.last
           /\ calls' = [total |-> calls.total + 1,
                        rejected |-> calls.rejected
                                       + (IF res.last.outcome = "rejected" THEN 1 ELSE 0),
                        hand |-> IF res.last.progress.completed THEN 0
                                 ELSE IF res.last.outcome = "accepted"
                                   THEN calls.hand + 1
                                 ELSE calls.hand]
           /\ UNCHANGED <<config, profile>>

\* Session::apply_action
ApplyAction ==
  IF current_hand = None \/ current_hand[1].completed
    THEN /\ last' = [outcome |-> "ignored", action |-> None, before |-> None,
                     hand |-> None, progress |-> InProgress, fold |-> "none",
                     nth |-> 0, stream |-> None]
         /\ UNCHANGED <<rng, config, profile, current_hand, summary, calls>>
    ELSE \E res \in ApplyResults :
           /\ current_hand' = res.current_hand
           /\ rng' = res.rng
           /\ summary' = res.summary
           /\ last' = res.last
           /\ calls' = [total |-> calls.total + 1,
                        rejected |-> calls.rejected
                                       + (IF res.last.outcome = "rejected" THEN 1 ELSE 0),
                        hand |-> IF res.last.progress.completed THEN 0
                                 ELSE IF res.last.outcome = "accepted"
                                   THEN calls.hand + 1
                                 ELSE calls.hand]
           /\ UNCHANGED <<config, profile>>

Next == ApplyAction \/ SnapshotCall

Spec == Init /\ [][Next]_vars

\* sessions of one hand whose deal ends, when it is played to the river, in a
\* showdown hero loses (seed 0), wins (seed 1) and ties (seed 5)
ShowdownSeeds == {0, 1, 5}

ShowdownConfigInputs ==
  [hands : {1}, mc_samples : 1..MaxSamples, rival_style : RivalStyle,
   seed : ShowdownSeeds]

InitShowdown ==
  \E cfg \in ShowdownConfigInputs :
    \E s \in {Session_new(cfg)} :
       /\ config = s.config
       /\ profile = s.profile
       /\ rng = s.rng
       /\ current_hand = s.current_hand
       /\ summary = s.summary
       /\ last = [outcome |-> "new", action |-> None, before |-> None,
                  hand |-> None, progress |-> InProgress, fold |-> "none", nth |-> 0,
                  stream |-> None]
       /\ calls = [total |-> 0, rejected |-> 0, hand |-> 0]

SpecShowdown == InitShowdown /\ [][Next]_vars

\* sessions of one hand in which the opponent calls the Raise and the Bets
\* of the three streets (seed 2): the line that invests the most
DeepSeeds == {2}

DeepConfigInputs ==
  [hands : {1}, mc_samples : 1..MaxSamples, rival_style : RivalStyle,
   seed : DeepSeeds]

InitDeep ==
  \E cfg \in DeepConfigInputs :
    \E s \in {Session_new(cfg)} :
       /\ config = s.config
       /\ profile = s.profile
       /\ rng = s.rng
       /\ current_hand = s.current_hand
       /\ summary = s.summary
       /\ last = [outcome |-> "new", action |-> None, before |-> None,
                  hand |-> None, progress |-> InProgress, fold |-> "none", nth |-> 0,
                  stream |-> None]
       /\ calls = [total |-> 0, rejected |-> 0, hand |-> 0]

SpecDeep == InitDeep /\ [][Next]_vars

\* ---------------------------------------------------------- two sessions

\* a second session built from the same configuration is kept beside the
\* first, in calls.second, as its fields [current_hand, rng, summary]
Second(s) == [current_hand |-> s.current_hand, rng |-> s.rng, summary |-> s.summary]

\* the configurations the two sessions share: the longest session and the
\* largest estimate tried, every style and seed
TwoConfigInputs ==
  [hands : {MaxHands}, mc_samples : {MaxSamples}, rival_style : RivalStyle,
   seed : 0..MaxSeed]

InitTwo ==
  \E cfg \in TwoConfigInputs :
    \E s \in {Session_new(cfg)} :
       /\ config = s.config
       /\ profile = s.profile
       /\ rng = s.rng
       /\ current_hand = s.current_hand
       /\ summary = s.summary
       /\ last = [outcome |-> "new", action |-> None, before |-> None,
                  hand |-> None, progress |-> InProgress, fold |-> "none", nth |-> 0,
                  stream |-> None]
       /\ calls = [total |-> 0, rejected |-> 0, hand |-> 0,
                   second |-> Second(Session_new(cfg))]

\* Session::apply_action on the session whose fields are s
Session_step(s, action) ==
  IF s.current_hand = None \/ s.current_hand[1].completed THEN s
  ELSE
    Bind(Hand_apply_action(s.current_hand[1], action, s.rng, profile, Samples),
         LAMBDA r :
      IF ~r.progress.completed
        THEN Bind(compute_options(r.hand, r.rng, profile, Samples), LAMBDA co :
               [current_hand |-> Some(co.hand), rng |-> co.rng, summary |-> s.summary])
        ELSE Bind(SessionSummary(s.summary.hands_played + 1,
                                 s.summary.total_ev_loss_bb + r.progress.ev_loss_bb,
                                 s.summary.total_profit_bb + r.progress.profit_bb),
                  LAMBDA sum :
               IF session_continues(sum, config)
                 THEN Bind(Hand_new(r.rng), LAMBDA hn :
                      Bind(compute_options(hn.hand, hn.rng, profile, Samples), LAMBDA co :
                        [current_hand |-> Some(co.hand), rng |-> co.rng,
                         summary |-> sum]))
                 ELSE [current_hand |-> None, rng |-> r.rng, summary |-> sum]))

\* the actions given to both sessions: those on the first one's menu, and
\* Fold and Check with no size, of which every menu lacks one
TwoActionInputs ==
  {HeroAction("Fold", None), HeroAction("Check", None)}
    \cup (IF current_hand = None THEN {}
          ELSE {current_hand[1].options[i].action :
                  i \in 1..Len(current_hand[1].options)})

\* one apply_action call on each of the two sessions, with the same action
ApplyActionTwo ==
  IF current_hand = None \/ current_hand[1].completed
    THEN /\ last' = [outcome |-> "ignored", action |-> None, before |-> None,
                     hand |-> None, progress |-> InProgress, fold |-> "none",
                     nth |-> 0, stream |-> None]
         /\ calls' = [calls EXCEPT !.second = Session_step(calls.second, HeroAction("Fold", None))]
         /\ UNCHANGED <<rng, config, profile, current_hand, summary>>
    ELSE \E action \in {a \in TwoActionInputs : CallAllowed(a)} :
           \E res \in {Session_apply_action(
                         action,
                         compute_options(current_hand[1], rng, profile, Samples))} :
             /\ current_hand' = res.current_hand
             /\ rng' = res.rng
             /\ summary' = res.summary
             /\ last' = res.last
             /\ calls' = [total |-> calls.total + 1,
                          rejected |-> calls.rejected
                                         + (IF res.last.outcome = "rejected" THEN 1 ELSE 0),
                          hand |-> IF res.last.progress.completed THEN 0
                                   ELSE IF res.last.outcome = "accepted"
                                     THEN calls.hand + 1
                                   ELSE calls.hand,
                          second |-> Session_step(calls.second, action)]
             /\ UNCHANGED <<config, profile>>

\* the two sessions take their apply_action calls together; snapshot() is
\* called on the first between them, any number of times
NextTwo == ApplyActionTwo \/ SnapshotCall

SpecTwo == InitTwo /\ [][NextTwo]_vars

\* ------------------------------------------------- calls of the estimator

\* the arguments tried: hero is the first cards of a deck shuffled from the
\* seed, 0 to MaxHeroCards of them, board_known the 0 to MaxBoardCards cards
\* after them, villain nothing or the 0 to MaxVillainCards cards after those,
\* samples any u32 from 0
EquityArgsOf(seed, d) ==
  {[hero |-> SubSeq(d, 1, k),
    board_known |-> SubSeq(d, MaxHeroCards + 1, MaxHeroCards + b),
    villain |-> v,
    samples |-> n,
    seed |-> seed] :
      k \in 0..MaxHeroCards, b \in 0..MaxBoardCards,
      v \in {None} \cup {Some(SubSeq(d, MaxHeroCards + MaxBoardCards + 1,
                                     MaxHeroCards + MaxBoardCards + j)) :
                            j \in 0..MaxVillainCards},
      n \in 0..MaxEquitySamples}
\* the seeds tried: 0..MaxEquitySeed, and 7, whose deck has hero and the
\* villain of 2 cards tie on its board
EquitySeeds == (0..MaxEquitySeed) \cup {7}

EquityArgs ==
  UNION {EquityArgsOf(seed, shuffle(standard_deck, seed_from_u64(seed))[1]) :
           seed \in EquitySeeds}

\* a caller holding the arguments and a stream, before the call
InitEquity ==
  \E args \in EquityArgs :
    /\ rng = seed_from_u64(args.seed)
    /\ config = [hands |-> 1, mc_samples |-> args.samples, rival_style |-> "Balanced",
                 seed |-> args.seed]
    /\ profile = resolve("Balanced")
    /\ current_hand = None
    /\ summary = SessionSummary(0, 0, 0)
    /\ last = [outcome |-> "called", hero |-> args.hero, villain |-> args.villain,
               board_known |-> args.board_known, result |-> None]
    /\ calls = [total |-> 0, rejected |-> 0, hand |-> 0]

\* monte_carlo_equity(hero, villain, board_known, samples, rng): the call
\* panics or returns the equity w / (2 * n)
EquityCall ==
  /\ last.outcome = "called"
  /\ \E r \in {monte_carlo_equity(last.hero, last.villain, last.board_known,
                                  Samples, rng)} :
       /\ last' = [last EXCEPT !.outcome = IF r.panic THEN "panicked" ELSE "returned",
                               !.result = Some(r)]
       /\ rng' = r.rng
  /\ UNCHANGED <<config, profile, current_hand, summary, calls>>

SpecEquity == InitEquity /\ [][EquityCall]_vars

\* --------------------------------------------------------------- trainer

\* Trainer::new: the session of a trainer configuration; hands is any u32,
\* 0 included
TrainerConfigInputs ==
  [hands : 0..MaxHands, mc_samples : 1..MaxSamples, rival_style : RivalStyle,
   seed : 0..MaxAutoplaySeed]

InitTrainer ==
  \E cfg \in TrainerConfigInputs :
    \E s \in {Session_new(cfg)} :
       /\ config = s.config
       /\ profile = s.profile
       /\ rng = s.rng
       /\ current_hand = s.current_hand
       /\ summary = s.summary
       /\ last = [outcome |-> "new", action |-> None, before |-> None,
                  hand |-> None, progress |-> InProgress, fold |-> "none", nth |-> 0,
                  stream |-> None]
       /\ calls = [total |-> 0, rejected |-> 0, hand |-> 0]

\* the choice with the fault of taking the first option of the menu
best_action_first(options) ==
  IF options = <<>> THEN HeroAction("Fold", None) ELSE options[1].action

\* options.iter().max_by(total_cmp on ev_delta_bb).map(action), or Fold with
\* no size for an empty menu; max_by returns the last of several maxima
best_action(options) ==
  IF options = <<>> THEN HeroAction("Fold", None)
  ELSE options[CHOOSE k \in 1..Len(options) :
                 /\ \A j \in 1..Len(options) :
                      options[j].ev_delta_bb <= options[k].ev_delta_bb
                 /\ \A j \in (k + 1)..Len(options) :
                      options[j].ev_delta_bb < options[k].ev_delta_bb].action

\* autoplay_best has returned Ok(snapshot.summary): summary is what it returned
Returned == last.outcome = "returned"

\* Trainer::autoplay_best, one iteration of its loop: snapshot(), return the
\* summary of a Completed session, else apply the best action.  snapshot()
\* finds a menu on every live hand and so computes nothing.
AutoplayStep ==
  /\ ~Returned
  /\ IF Snapshot.status = "Completed"
       THEN /\ last' = [outcome |-> "returned", action |-> None, before |-> None,
                        hand |-> None, progress |-> InProgress, fold |-> "none",
                        nth |-> 0, stream |-> None]
            /\ UNCHANGED <<rng, config, profile, current_hand, summary, calls>>
       ELSE \E res \in {Session_apply_action(
                          best_action(Snapshot.node.action_options),
                          compute_options(current_hand[1], rng, profile, Samples))} :
              /\ current_hand' = res.current_hand
              /\ rng' = res.rng
              /\ summary' = res.summary
              /\ last' = res.last
              /\ calls' = [total |-> calls.total + 1,
                           rejected |-> calls.rejected
                                          + (IF res.last.outcome = "rejected" THEN 1 ELSE 0),
                           hand |-> IF res.last.progress.completed THEN 0
                                    ELSE IF res.last.outcome = "accepted"
                                      THEN calls.hand + 1
                                    ELSE calls.hand]
              /\ UNCHANGED <<config, profile>>

\* a trainer running autoplay_best
SpecAutoplay == InitTrainer /\ [][AutoplayStep]_vars

\* ------------------------------------------------------------ properties

\* Street, in the order of its declaration
StreetOrder == <<"Preflop", "Flop", "Turn", "River", "Showdown", "Terminal">>
street_index(street) == CHOOSE i \in 1..Len(StreetOrder) : StreetOrder[i] = street

\* the hands in view: the session's hand, and the hand of the last call
\* before it and as Hand::apply_action left it
HandsSeen ==
  (IF current_hand # None THEN {current_hand[1]} ELSE {})
    \cup (IF last.hand # None THEN {last.hand[1]} ELSE {})
    \cup (IF last.before # None THEN {last.before[1].hand} ELSE {})

Rejected == last.outcome = "rejected"
Accepted == last.outcome = "accepted"

\* C1: after a rejected action (a kind and size that is not on the menu) the
\* snapshot equals the snapshot taken before it in every field: street, pot,
\* effective stack, board, the options with their EVs and descriptions, the
\* summary.
C1_RejectedKeepsSnapshot ==
  Rejected => Snapshot = last.before[1].state

\* C2: a rejected action changes no betting state and no accounting: the
\* hand's street, pot, both investments, revealed board and both EV
\* accumulators, and the session summary, are as before; the session still
\* holds the hand and the call reports the hand in progress, not an error.
C2_RejectedKeepsAccounting ==
  Rejected =>
    /\ current_hand # None
    /\ current_hand[1].state = last.before[1].hand.state
    /\ current_hand[1].total_best_ev = last.before[1].hand.total_best_ev
    /\ current_hand[1].total_chosen_ev = last.before[1].hand.total_chosen_ev
    /\ ~current_hand[1].completed
    /\ summary = last.before[1].state.summary
    /\ last.progress = InProgress

\* a rejected action on the flop, where the accumulators hold the preflop EVs
C2_Witness ==
  /\ Rejected
  /\ last.before[1].hand.state.street = "Flop"
  /\ last.before[1].hand.total_best_ev # 0

\* C3: in every hand the pot is hero's investment plus the opponent's, at
\* creation and after every accepted action.
C3_PotIsSumOfInvestments ==
  \A h \in HandsSeen :
    h.state.pot_bb = h.state.hero_invested_bb + h.state.villain_invested_bb

\* a bet the opponent called: both investments and the pot have grown
C3_Witness ==
  /\ Accepted
  /\ last.action[1].kind = "Bet"
  /\ last.fold = "none"
  /\ last.hand[1].state.villain_invested_bb
       > last.before[1].hand.state.villain_invested_bb
  /\ last.hand[1].state.pot_bb > last.before[1].hand.state.pot_bb

\* C4: the effective stack is the smaller of the two remaining stacks, each
\* the 100bb starting stack less the investment and never below 0; it is
\* never negative and the snapshot reports the same value.
C4_EffectiveStack ==
  /\ \A h \in HandsSeen :
       /\ h.state.effective_stack_bb =
            Min(Max(100 * BB - h.state.hero_invested_bb, 0),
                Max(100 * BB - h.state.villain_invested_bb, 0))
       /\ h.state.effective_stack_bb >= 0
  /\ current_hand # None =>
       Snapshot.node.effective_stack_bb = current_hand[1].state.effective_stack_bb

\* the opponent folded to a bet on a later street: hero has put in more than
\* the opponent, and hero's remaining stack is the smaller one
C4_Witness ==
  /\ last.fold = "villain"
  /\ last.before[1].hand.state.street # "Preflop"
  /\ last.hand[1].state.hero_invested_bb > last.hand[1].state.villain_invested_bb
  /\ last.hand[1].state.effective_stack_bb
       < last.before[1].hand.state.effective_stack_bb

\* the streets a hand has been set to form a strictly forward sequence that
\* ends with the street it is at
TrailForward(h) ==
  /\ h.trail[Len(h.trail)] = h.state.street
  /\ \A i \in 1..(Len(h.trail) - 1) :
       street_index(h.trail[i]) < street_index(h.trail[i + 1])

\* C5: a hand's street only moves forward.  An accepted action that leaves
\* the hand live moves it exactly one street on (Preflop to Flop, Flop to
\* Turn, Turn to River); any other accepted action ends the hand at
\* Terminal.  A hand ended by a fold, hero's or the opponent's, goes straight
\* to Terminal and never has Showdown as its street.  A hand ends after at
\* most 4 accepted actions.
C5_StreetsMoveForward ==
  /\ \A h \in HandsSeen : TrailForward(h)
  /\ Accepted =>
       /\ IF last.progress.completed
            THEN /\ last.hand[1].state.street = "Terminal"
                 /\ last.hand[1].completed
                 /\ IF last.fold # "none"
                      THEN last.hand[1].trail
                             = Append(last.before[1].hand.trail, "Terminal")
                      ELSE /\ last.before[1].hand.state.street = "River"
                           /\ last.hand[1].trail
                                = last.before[1].hand.trail \o <<"Showdown", "Terminal">>
            ELSE /\ last.fold = "none"
                 /\ last.before[1].hand.state.street \in {"Preflop", "Flop", "Turn"}
                 /\ last.hand[1].state.street
                      = StreetOrder[street_index(last.before[1].hand.state.street) + 1]
                 /\ last.hand[1].trail
                      = Append(last.before[1].hand.trail, last.hand[1].state.street)
       /\ last.nth <= 4
       /\ last.nth = 4 => last.progress.completed
  /\ last.fold # "none" => Accepted /\ last.progress.completed
  /\ current_hand # None => calls.hand <= 3

\* the fourth accepted action of a hand, on the River, ends it
C5_Witness ==
  /\ Accepted
  /\ last.nth = 4
  /\ last.progress.completed
  /\ last.before[1].hand.trail = <<"Preflop", "Flop", "Turn", "River">>

\* C6 as stated: Showdown and Terminal are both absorbing, so once a hand's
\* street is one of them nothing sets it to another street.
C6_ShowdownAndTerminalAbsorbing ==
  \A h \in HandsSeen :
    \A i \in 1..(Len(h.trail) - 1) : h.trail[i] \notin {"Showdown", "Terminal"}

\* C6, as the code has it: Terminal is absorbing and Showdown is not.  Nothing
\* sets a hand's street after Terminal, and the session never holds a hand
\* that is completed or at Showdown or Terminal: it replaces or drops the
\* hand in the call that ended it, and without a hand apply_action changes
\* nothing.  A hand set to Showdown is set to Terminal next, in the same
\* call.
C6_TerminalAbsorbing ==
  /\ \A h \in HandsSeen :
       /\ \A i \in 1..(Len(h.trail) - 1) : h.trail[i] # "Terminal"
       /\ \A i \in 1..Len(h.trail) :
            h.trail[i] = "Showdown" => i < Len(h.trail) /\ h.trail[i + 1] = "Terminal"
       /\ h.completed <=> h.state.street = "Terminal"
  /\ current_hand # None =>
       /\ ~current_hand[1].completed
       /\ current_hand[1].state.street \notin {"Showdown", "Terminal"}
  /\ last.outcome = "ignored" => current_hand = None

\* a hand that went through Showdown to Terminal
C6_Witness ==
  /\ last.hand # None
  /\ last.hand[1].state.street = "Terminal"
  /\ \E i \in 1..Len(last.hand[1].trail) : last.hand[1].trail[i] = "Showdown"

\* the number of board cards a street shows
RevealedAt(street) ==
  CASE street = "Preflop" -> 0 [] street = "Flop" -> 3 [] street = "Turn" -> 4
    [] OTHER -> 5

\* snapshot()'s board is the first board_revealed cards of the board dealt
SnapshotShowsPrefix ==
  current_hand # None =>
    /\ Len(Snapshot.node.board) = current_hand[1].state.board_revealed
    /\ \A i \in 1..Len(Snapshot.node.board) :
         Snapshot.node.board[i] = notation(current_hand[1].board[i])
    /\ last.before # None /\ ~last.progress.completed =>
         current_hand[1].board = last.before[1].hand.board

\* C7 as stated: board_revealed is 0 at Preflop, 3 at Flop, 4 at Turn and 5
\* at River and later (Showdown, Terminal); the snapshot's board has that
\* many cards and is a prefix of the board dealt.
C7_BoardCountByStreet ==
  /\ \A h \in HandsSeen : h.state.board_revealed = RevealedAt(h.state.street)
  /\ SnapshotShowsPrefix

\* C7, as the code has it: board_revealed is 0 at Preflop, 3 at Flop, 4 at
\* Turn and 5 at River and at Showdown; a hand at Terminal keeps the count of
\* the street it ended on, which is 5 after a showdown and may be less after
\* a fold.  The snapshot's board has that many cards and is a prefix of the
\* board dealt, which never changes during a hand.
C7_BoardCountByStreetReached ==
  /\ \A h \in HandsSeen :
       /\ h.state.street # "Terminal" =>
            h.state.board_revealed = RevealedAt(h.state.street)
       /\ h.state.street = "Terminal" =>
            h.state.board_revealed = RevealedAt(h.trail[Len(h.trail) - 1])
       /\ Len(h.board) = 5
  /\ SnapshotShowsPrefix

\* the opponent folded to a flop bet: the hand is at Terminal with 3 cards
C7_Witness ==
  /\ last.fold = "villain"
  /\ last.hand[1].state.street = "Terminal"
  /\ last.hand[1].state.board_revealed = 3

\* the option of this kind on a hand's menu, if any
OfferedKinds(h) == {h.options[i].action.kind : i \in 1..Len(h.options)}

\* C8: on any hand at Preflop, Call is offered, and applying it leaves the
\* hand live on the Flop with exactly 3 board cards shown, hero's
\* investment equal to the open size (so the pot is twice the open),
\* hands_played as it was and status AwaitingInput.
C8_PreflopCall ==
  /\ \A h \in HandsSeen :
       h.state.street = "Preflop" /\ h.options # <<>> =>
         \E i \in 1..Len(h.options) :
           h.options[i].action = HeroAction("Call", Some(h.open_size))
  /\ Accepted /\ last.action[1].kind = "Call" =>
       /\ last.before[1].hand.state.street = "Preflop"
       /\ ~last.progress.completed
       /\ current_hand # None
       /\ Snapshot.node.street = "Flop"
       /\ Len(Snapshot.node.board) = 3
       /\ current_hand[1].state.hero_invested_bb = last.before[1].hand.open_size
       /\ current_hand[1].state.pot_bb = 2 * last.before[1].hand.open_size
       /\ summary.hands_played = last.before[1].state.summary.hands_played
       /\ Snapshot.status = "AwaitingInput"

\* a preflop Call was applied
C8_Witness ==
  /\ Accepted
  /\ last.action[1].kind = "Call"
  /\ Snapshot.node.street = "Flop"

\* C9: on any hand at Preflop, Fold is offered, and applying it ends the
\* hand: hands_played grows by exactly 1, total_profit_bb falls by hero's
\* investment so far, the 1bb blind, the EV loss added is at least 0, and a
\* session configured for 1 hand becomes Completed.
C9_PreflopFold ==
  /\ \A h \in HandsSeen :
       h.state.street = "Preflop" /\ h.options # <<>> => "Fold" \in OfferedKinds(h)
  /\ Accepted /\ last.action[1].kind = "Fold" =>
       /\ last.before[1].hand.state.street = "Preflop"
       /\ last.progress.completed
       /\ last.fold = "hero"
       /\ summary.hands_played = last.before[1].state.summary.hands_played + 1
       /\ last.before[1].hand.state.hero_invested_bb = BB
       /\ summary.total_profit_bb = last.before[1].state.summary.total_profit_bb - BB
       /\ last.progress.ev_loss_bb >= 0
       /\ summary.total_ev_loss_bb
            = last.before[1].state.summary.total_ev_loss_bb + last.progress.ev_loss_bb
       /\ config.hands = 1 => Snapshot.status = "Completed"

\* a preflop Fold ended a session of one hand, at an EV loss
C9_Witness ==
  /\ Accepted
  /\ last.action[1].kind = "Fold"
  /\ config.hands = 1
  /\ Snapshot.status = "Completed"
  /\ summary.total_ev_loss_bb > 0

\* C10: when a hand completes with hands_played still below the configured
\* number, the session at once holds a fresh hand at Preflop: status
\* AwaitingInput, hand_index = hands_played + 1, empty board, investments of
\* 1bb and the open size, EV accumulators at 0.  When hands_played has
\* reached the configured number the session has no hand, status is
\* Completed and hand_index = hands_played.
C10_Rollover ==
  last.progress.completed =>
    /\ summary.hands_played = last.before[1].state.summary.hands_played + 1
    /\ summary.hands_played <= config.hands
    /\ IF summary.hands_played < config.hands
         THEN /\ current_hand # None
              /\ Snapshot.status = "AwaitingInput"
              /\ Snapshot.hand_index = summary.hands_played + 1
              /\ Snapshot.node.street = "Preflop"
              /\ Snapshot.node.board = <<>>
              /\ current_hand[1].state.board_revealed = 0
              /\ current_hand[1].state.hero_invested_bb = BB
              /\ current_hand[1].state.villain_invested_bb = current_hand[1].open_size
              /\ \E i \in 1..Len(OPEN_SIZES) : current_hand[1].open_size = OPEN_SIZES[i]
              /\ current_hand[1].total_best_ev = 0
              /\ current_hand[1].total_chosen_ev = 0
              /\ ~current_hand[1].completed
         ELSE /\ current_hand = None
              /\ Snapshot.status = "Completed"
              /\ Snapshot.hand_index = summary.hands_played

\* a hand completed with accumulated EV and the session rolled into the next
C10_Witness ==
  /\ last.progress.completed
  /\ last.hand[1].total_best_ev # 0
  /\ summary.hands_played < config.hands
  /\ current_hand # None

\* C11 (under SpecAutoplay): for every number of hands N, seed and style,
\* autoplay_best returns, within 4 actions a hand, a summary that has
\* hands_played = N and total_ev_loss_bb >= 0.
C11_AutoplayPlaysConfiguredHands ==
  /\ calls.total <= 4 * Max(config.hands, 1)
  /\ Returned => summary.hands_played = config.hands /\ summary.total_ev_loss_bb >= 0

\* the largest EV a menu offered
MenuMax(offered) == CHOOSE m \in {offered[i] : i \in 1..Len(offered)} :
                      \A i \in 1..Len(offered) : offered[i] <= m

\* the sum over a hand's decisions of menu maximum less chosen EV
RECURSIVE DecisionLoss(_)
DecisionLoss(ds) ==
  IF ds = <<>> THEN 0
  ELSE MenuMax(Head(ds).offered) - Head(ds).chosen + DecisionLoss(Tail(ds))

\* C12: the EV loss a hand reports at completion is the sum over its accepted
\* actions of (largest EV on the menu offered - EV of the option chosen),
\* floored at zero; every term and the loss are >= 0; the session's
\* total_ev_loss_bb grows by that loss and never decreases.
C12_EvLossIsSumOverDecisions ==
  /\ \A h \in HandsSeen :
       /\ h.total_best_ev - h.total_chosen_ev = DecisionLoss(h.decisions)
       /\ \A i \in 1..Len(h.decisions) :
            MenuMax(h.decisions[i].offered) - h.decisions[i].chosen >= 0
  /\ Accepted =>
       Len(last.hand[1].decisions) = Len(last.before[1].hand.decisions) + 1
  /\ last.progress.completed =>
       /\ last.progress.ev_loss_bb = Max(DecisionLoss(last.hand[1].decisions), 0)
       /\ last.progress.ev_loss_bb >= 0
       /\ summary.total_ev_loss_bb
            = last.before[1].state.summary.total_ev_loss_bb + last.progress.ev_loss_bb
  /\ last.before # None =>
       summary.total_ev_loss_bb >= last.before[1].state.summary.total_ev_loss_bb
  /\ summary.total_ev_loss_bb >= 0

\* a hand completed after several decisions, at a loss
C12_Witness ==
  /\ last.progress.completed
  /\ Len(last.hand[1].decisions) >= 3
  /\ last.progress.ev_loss_bb > 0
  /\ \E i \in 1..Len(last.hand[1].decisions) :
       MenuMax(last.hand[1].decisions[i].offered) = last.hand[1].decisions[i].chosen

\* the last call ended its hand at showdown
AtShowdown == last.progress.completed /\ last.fold = "none"

\* hero's best hand against the opponent's, on the full board
ShowdownOrder(h) ==
  strength_cmp(best_five_card_hand(h.hero \o h.board),
               best_five_card_hand(h.villain \o h.board))

\* C13: at showdown the profit is + the opponent's investment when hero's
\* best hand on the 5 board cards is stronger, - hero's investment when it
\* is weaker, half of (opponent's - hero's investment) when they are equal;
\* the 5 board cards are revealed and the hand is Terminal and completed.
C13_ShowdownProfit ==
  AtShowdown =>
    /\ Len(last.hand[1].board) = 5
    /\ last.hand[1].state.board_revealed = 5
    /\ last.hand[1].state.street = "Terminal"
    /\ last.hand[1].completed
    /\ ShowdownOrder(last.hand[1]) = "Greater" =>
         last.progress.profit_bb = last.hand[1].state.villain_invested_bb
    /\ ShowdownOrder(last.hand[1]) = "Less" =>
         last.progress.profit_bb = -last.hand[1].state.hero_invested_bb
    /\ ShowdownOrder(last.hand[1]) = "Equal" =>
         2 * last.progress.profit_bb = last.hand[1].state.villain_invested_bb
                                         - last.hand[1].state.hero_invested_bb
    /\ summary.total_profit_bb
         = last.before[1].state.summary.total_profit_bb + last.progress.profit_bb

\* a tied showdown: the equal investments leave hero a profit of 0
C13_Witness ==
  /\ AtShowdown
  /\ ShowdownOrder(last.hand[1]) = "Equal"
  /\ last.progress.profit_bb = 0
  /\ last.hand[1].state.hero_invested_bb > last.hand[1].open_size

\* showdowns hero won and lost, each after a bet the opponent called
C13_WonAndLostReached ==
  \/ /\ AtShowdown
     /\ ShowdownOrder(last.hand[1]) = "Greater"
     /\ last.progress.profit_bb > last.hand[1].open_size
  \/ /\ AtShowdown
     /\ ShowdownOrder(last.hand[1]) = "Less"
     /\ last.progress.profit_bb < -last.hand[1].open_size


\* an accepted action of the given kind on a hand at one of the streets
AcceptedOn(kind, streets) ==
  /\ Accepted
  /\ last.action[1].kind = kind
  /\ last.before[1].hand.state.street \in streets

\* C14: applying the offered Preflop Raise brings hero's investment to the
\* raise size, 9bb, and takes one fold decision for the opponent, one draw of
\* the stream: on a fold the hand is Terminal and the profit is the
\* opponent's investment, the open size; on a call the opponent's investment
\* is the raise size, the pot twice the raise size, the street Flop and the
\* hand in progress.
C14_PreflopRaise ==
  AcceptedOn("Raise", {"Preflop"}) =>
    /\ last.action[1].size_bb = Some(DEFAULT_THREE_BET)
    /\ last.hand[1].state.hero_invested_bb = DEFAULT_THREE_BET
    /\ last.stream = Some(rng_next(last.before[1].rng))
    /\ last.fold \in {"villain", "none"}
    /\ last.fold = "villain" =>
         /\ last.progress.completed
         /\ last.hand[1].completed
         /\ last.hand[1].state.street = "Terminal"
         /\ last.before[1].hand.state.villain_invested_bb = last.hand[1].open_size
         /\ last.progress.profit_bb = last.hand[1].open_size
         /\ summary.total_profit_bb
              = last.before[1].state.summary.total_profit_bb + last.hand[1].open_size
    /\ last.fold = "none" =>
         /\ ~last.progress.completed
         /\ ~last.hand[1].completed
         /\ last.hand[1].state.villain_invested_bb = DEFAULT_THREE_BET
         /\ last.hand[1].state.pot_bb = 2 * DEFAULT_THREE_BET
         /\ last.hand[1].state.street = "Flop"
         /\ current_hand # None
         /\ current_hand[1].state = last.hand[1].state
         /\ Snapshot.status = "AwaitingInput"

\* a preflop Raise the opponent called
C14_Witness ==
  /\ AcceptedOn("Raise", {"Preflop"})
  /\ last.fold = "none"
  /\ last.hand[1].state.pot_bb = 2 * DEFAULT_THREE_BET

\* a preflop Raise the opponent folded to
C14_FoldReached ==
  /\ AcceptedOn("Raise", {"Preflop"})
  /\ last.fold = "villain"


\* the bet an accepted Bet places: its size capped at the effective stack
BetPlaced ==
  Min(last.action[1].size_bb[1], Max(last.before[1].hand.state.effective_stack_bb, 0))

\* the opponent's call of the bet: the bet, capped at what is left of 100bb
CallOfBet ==
  Min(BetPlaced, Max(MAX_STACK_BB - last.before[1].hand.state.villain_invested_bb, 0))

\* the stream after the draws of an accepted Bet: the equity estimate on the
\* visible board, then one draw for the fold decision
StreamAfterBet ==
  rng_next(monte_carlo_equity(last.before[1].hand.hero, None,
                              visible_board(last.before[1].hand), Samples,
                              last.before[1].rng).rng)

\* C15: applying the offered Bet on the Flop or Turn adds the bet, capped at
\* the effective stack, to hero's investment and takes one fold decision for
\* the opponent: on a fold the hand is Terminal and the profit is the
\* opponent's investment before the bet; on a call the opponent's investment
\* grows by min(bet, 100bb - opponent's investment), the pot grows by the bet
\* and the call, and the hand is one street further.
C15_PostflopBet ==
  AcceptedOn("Bet", {"Flop", "Turn"}) =>
    /\ last.action[1].size_bb # None
    /\ BetPlaced > 0
    /\ last.hand[1].state.hero_invested_bb
         = last.before[1].hand.state.hero_invested_bb + BetPlaced
    /\ last.stream = Some(StreamAfterBet)
    /\ last.fold \in {"villain", "none"}
    /\ last.fold = "villain" =>
         /\ last.progress.completed
         /\ last.hand[1].completed
         /\ last.hand[1].state.street = "Terminal"
         /\ last.hand[1].state.villain_invested_bb
              = last.before[1].hand.state.villain_invested_bb
         /\ last.progress.profit_bb = last.before[1].hand.state.villain_invested_bb
         /\ summary.total_profit_bb
              = last.before[1].state.summary.total_profit_bb
                  + last.before[1].hand.state.villain_invested_bb
    /\ last.fold = "none" =>
         /\ ~last.progress.completed
         /\ last.hand[1].state.villain_invested_bb
              = last.before[1].hand.state.villain_invested_bb + CallOfBet
         /\ last.hand[1].state.pot_bb
              = last.before[1].hand.state.pot_bb + BetPlaced + CallOfBet
         /\ street_index(last.hand[1].state.street)
              = street_index(last.before[1].hand.state.street) + 1
         /\ current_hand # None
         /\ current_hand[1].state = last.hand[1].state

\* a Bet on the Flop the opponent called
C15_Witness ==
  /\ AcceptedOn("Bet", {"Flop"})
  /\ last.fold = "none"
  /\ last.hand[1].state.street = "Turn"
  /\ last.hand[1].state.pot_bb > last.before[1].hand.state.pot_bb

\* a Bet on the Flop or Turn the opponent folded to
C15_FoldReached ==
  /\ AcceptedOn("Bet", {"Flop", "Turn"})
  /\ last.fold = "villain"


\* C16: applying Check on the Flop or Turn takes the hand to the next street
\* (Flop to Turn, Turn to River) and leaves hero's investment, the
\* opponent's investment, the pot and the effective stack as they were; the
\* hand stays in progress, no draw is taken from the stream, and the session
\* holds the hand with hands_played unchanged.
C16_PostflopCheck ==
  AcceptedOn("Check", {"Flop", "Turn"}) =>
    /\ last.action[1].size_bb = None
    /\ last.hand[1].state.street
         = (IF last.before[1].hand.state.street = "Flop" THEN "Turn" ELSE "River")
    /\ last.hand[1].state.hero_invested_bb = last.before[1].hand.state.hero_invested_bb
    /\ last.hand[1].state.villain_invested_bb
         = last.before[1].hand.state.villain_invested_bb
    /\ last.hand[1].state.pot_bb = last.before[1].hand.state.pot_bb
    /\ last.hand[1].state.effective_stack_bb
         = last.before[1].hand.state.effective_stack_bb
    /\ last.hand[1].state.board_revealed
         = last.before[1].hand.state.board_revealed + 1
    /\ ~last.progress.completed
    /\ ~last.hand[1].completed
    /\ last.fold = "none"
    /\ last.stream = Some(last.before[1].rng)
    /\ current_hand # None
    /\ current_hand[1].state = last.hand[1].state
    /\ Snapshot.node.street = last.hand[1].state.street
    /\ Snapshot.node.pot_bb = last.before[1].state.node.pot_bb
    /\ Snapshot.node.effective_stack_bb = last.before[1].state.node.effective_stack_bb
    /\ Snapshot.status = "AwaitingInput"
    /\ summary = last.before[1].state.summary

\* a Check on the Turn of a hand whose pot holds a called raise
C16_Witness ==
  /\ AcceptedOn("Check", {"Turn"})
  /\ Snapshot.node.street = "River"
  /\ Snapshot.node.pot_bb = 2 * DEFAULT_THREE_BET


\* the profit resolve_showdown pays on the hand as the river action left it
ShowdownProfit(h) ==
  CASE ShowdownOrder(h) = "Greater" -> h.state.villain_invested_bb
    [] ShowdownOrder(h) = "Less" -> -h.state.hero_invested_bb
    [] ShowdownOrder(h) = "Equal" ->
         (h.state.villain_invested_bb - h.state.hero_invested_bb) \div 2

\* C17: every accepted action on the River ends the hand.  Check goes to
\* showdown at once with both investments as they were; Bet takes one fold
\* decision: a fold ends the hand with profit equal to the opponent's
\* investment, a call goes to showdown with hero's investment grown by the
\* bet and the opponent's by the call.
C17_RiverEndsHand ==
  Accepted /\ last.before[1].hand.state.street = "River" =>
    /\ last.action[1].kind \in {"Check", "Bet"}
    /\ last.progress.completed
    /\ last.hand[1].completed
    /\ last.hand[1].state.street = "Terminal"
    /\ summary.hands_played = last.before[1].state.summary.hands_played + 1
    /\ last.action[1].kind = "Check" =>
         /\ AtShowdown
         /\ last.stream = Some(last.before[1].rng)
         /\ last.hand[1].state.hero_invested_bb
              = last.before[1].hand.state.hero_invested_bb
         /\ last.hand[1].state.villain_invested_bb
              = last.before[1].hand.state.villain_invested_bb
         /\ last.progress.profit_bb = ShowdownProfit(last.hand[1])
    /\ last.action[1].kind = "Bet" =>
         /\ last.stream = Some(StreamAfterBet)
         /\ last.fold \in {"villain", "none"}
         /\ last.hand[1].state.hero_invested_bb
              = last.before[1].hand.state.hero_invested_bb + BetPlaced
         /\ last.fold = "villain" =>
              /\ last.hand[1].state.villain_invested_bb
                   = last.before[1].hand.state.villain_invested_bb
              /\ last.progress.profit_bb
                   = last.before[1].hand.state.villain_invested_bb
         /\ last.fold = "none" =>
              /\ AtShowdown
              /\ last.hand[1].state.villain_invested_bb
                   = last.before[1].hand.state.villain_invested_bb + CallOfBet
              /\ last.progress.profit_bb = ShowdownProfit(last.hand[1])

\* a Bet on the River the opponent called, and the showdown hero won
C17_Witness ==
  /\ AcceptedOn("Bet", {"River"})
  /\ last.fold = "none"
  /\ last.progress.profit_bb
       = last.before[1].hand.state.villain_invested_bb + CallOfBet

\* a Bet on the River the opponent folded to, and a Check on the River
C17_FoldAndCheckReached ==
  \/ AcceptedOn("Bet", {"River"}) /\ last.fold = "villain"
  \/ AcceptedOn("Check", {"River"}) /\ AtShowdown


\* the actions of a menu, in the menu's order
MenuActions(h) == [i \in 1..Len(h.options) |-> h.options[i].action]

\* C18: whenever the session awaits input the menu is exactly the legal
\* actions of the hand's street: at Preflop Fold with no size and EV
\* -(hero's investment), Call with the open size and Raise with 9bb; on the
\* Flop, Turn and River Check with no size and Bet with one size, a positive
\* one.  The menu is never empty; it is the one computed on the hand's
\* state as it is, and after every accepted action that leaves the hand in
\* progress it was computed after the action, on the state and the stream
\* the action left; after an action that ends the hand it is the menu of the
\* next hand.
C18_MenuIsLegalActions ==
  Snapshot.status = "AwaitingInput" =>
    /\ current_hand # None
    /\ Snapshot.node.action_options = current_hand[1].options
    /\ current_hand[1].options # <<>>
    /\ current_hand[1].state.street \in {"Preflop", "Flop", "Turn", "River"}
    /\ current_hand[1].state.street = "Preflop" =>
         /\ MenuActions(current_hand[1])
              = << HeroAction("Fold", None),
                   HeroAction("Call", Some(current_hand[1].open_size)),
                   HeroAction("Raise", Some(DEFAULT_THREE_BET)) >>
         /\ current_hand[1].options[1].ev_delta_bb * BB
              = -current_hand[1].state.hero_invested_bb * EvDen(Samples)
    /\ current_hand[1].state.street \in {"Flop", "Turn", "River"} =>
         /\ Len(current_hand[1].options) = 2
         /\ current_hand[1].options[1].action = HeroAction("Check", None)
         /\ current_hand[1].options[2].action.kind = "Bet"
         /\ current_hand[1].options[2].action.size_bb # None
         /\ current_hand[1].options[2].action.size_bb[1] > 0
    /\ current_hand[1].menu_of # None
    /\ current_hand[1].menu_of[1].state = current_hand[1].state
    /\ Accepted /\ ~last.progress.completed =>
         /\ current_hand[1].menu_of[1].state = last.hand[1].state
         /\ current_hand[1].menu_of[1].rng = last.stream[1]
    /\ Accepted /\ last.progress.completed =>
         /\ current_hand[1].state.street = "Preflop"
         /\ current_hand[1].decisions = <<>>

\* the session awaits input on the River, after an accepted Check on the
\* Turn, with a menu of Check and a Bet of 3/4 of the pot
C18_Witness ==
  /\ Snapshot.status = "AwaitingInput"
  /\ AcceptedOn("Check", {"Turn"})
  /\ current_hand[1].state.street = "River"
  /\ current_hand[1].options[2].action
       = HeroAction("Bet", Some(mul_frac(current_hand[1].state.pot_bb, 3, 4)))


\* what snapshot() returns on the second session
SecondSnapshot == SessionState(calls.second.current_hand, calls.second.summary)

C20_EquityRejectsBadArguments ==
  /\ last.outcome = "returned" => Len(last.hero) = 2 /\ Len(last.board_known) <= 5
  /\ last.outcome # "called" /\ (Len(last.hero) # 2 \/ Len(last.board_known) > 5) =>
       last.outcome = "panicked"

\* the part of C20 about hero: the call fails whenever hero does not have
\* exactly 2 cards
C20_HeroOfTwoCards ==
  last.outcome # "called" /\ Len(last.hero) # 2 => last.outcome = "panicked"

\* a call with a hero of 3 cards, which failed
C20_HeroRejectedReached ==
  /\ last.outcome = "panicked"
  /\ Len(last.hero) = 3
  /\ Len(last.board_known) = 3

\* a call with 2 hero cards and a known board of 6 cards returned an equity
C20_LongBoardReturns ==
  /\ last.outcome = "returned"
  /\ Len(last.hero) = 2
  /\ Len(last.board_known) = 6
  /\ last.result[1].w \in 0..(2 * last.result[1].n)


\* C21: monte_carlo_equity called with a fixed villain hand that does not
\* have exactly 2 cards (0, 1, 3 or more) aborts; it never goes on with a
\* part of the cards given or with other cards.
C21_VillainOfTwoCards ==
  last.outcome # "called" /\ last.villain # None /\ Len(last.villain[1]) # 2 =>
    last.outcome = "panicked"

\* the part of C21 about a villain short of 2 cards: the call fails
C21_ShortVillainRejected ==
  last.outcome # "called" /\ last.villain # None /\ Len(last.villain[1]) < 2 =>
    last.outcome = "panicked"

\* a call with 2 hero cards, a flop and a villain of 3 cards returned an equity
C21_LongVillainReturns ==
  /\ last.outcome = "returned"
  /\ Len(last.hero) = 2
  /\ Len(last.board_known) = 3
  /\ last.villain # None
  /\ Len(last.villain[1]) = 3

\* a call with 2 hero cards and a villain of 1 card, which failed
C21_ShortVillainReached ==
  /\ last.outcome = "panicked"
  /\ Len(last.hero) = 2
  /\ last.villain # None
  /\ Len(last.villain[1]) = 1


\* the arguments of the call are valid: 2 hero cards, no villain or one of 2
\* cards, at most 5 known board cards
ValidEquityArgs ==
  /\ Len(last.hero) = 2
  /\ last.villain = None \/ Len(last.villain[1]) = 2
  /\ Len(last.board_known) <= 5

\* the scores, doubled, of k samples drawn one after the other from stream r
\* (2 for a win, 1 for a tie, 0 for a loss), with the stream they leave
RECURSIVE SampleScores(_, _)
SampleScores(k, r) ==
  IF k = 0 THEN [scores |-> <<>>, rng |-> r]
  ELSE Bind(mc_sample(last.hero, last.villain, last.board_known, r), LAMBDA s :
       Bind(SampleScores(k - 1, s.rng), LAMBDA rest :
         [scores |-> <<s.score2>> \o rest.scores, rng |-> rest.rng]))

RECURSIVE SumSeq(_)
SumSeq(s) == IF s = <<>> THEN 0 ELSE Head(s) + SumSeq(Tail(s))

\* C22: for every valid input monte_carlo_equity returns (wins + ties / 2) / n
\* over the n = max(samples, 1) samples it ran, a value in [0, 1]; with
\* samples = 0 it runs exactly one sample and divides by 1.
C22_EquityIsMeanOfSamples ==
  last.outcome # "called" /\ ValidEquityArgs =>
    /\ last.outcome = "returned"
    /\ last.result[1].n = Max(config.mc_samples, 1)
    /\ last.result[1].n >= 1
    /\ Bind(SampleScores(last.result[1].n, seed_from_u64(config.seed)), LAMBDA ss :
         /\ Len(ss.scores) = last.result[1].n
         /\ \A i \in 1..Len(ss.scores) : ss.scores[i] \in {0, 1, 2}
         /\ last.result[1].w = SumSeq(ss.scores)
         /\ rng = ss.rng)
    /\ last.result[1].w >= 0
    /\ last.result[1].w <= 2 * last.result[1].n

\* a call with samples = 0 that ran one sample, which hero won
C22_Witness ==
  /\ last.outcome = "returned"
  /\ ValidEquityArgs
  /\ config.mc_samples = 0
  /\ last.result[1].n = 1
  /\ last.result[1].w = 2

\* a call with 2 samples of which hero won one and lost one
C22_MixedReached ==
  /\ last.outcome = "returned"
  /\ ValidEquityArgs
  /\ last.result[1].n = 2
  /\ last.result[1].w = 2
  /\ SampleScores(2, seed_from_u64(config.seed)).scores \in {<<2, 0>>, <<0, 2>>}


\* the call had a fixed villain of 2 cards, beside valid hero and board
FixedVillain == ValidEquityArgs /\ last.villain # None

\* the scores of the same samples with hero and villain exchanged
SwappedScores(k, r) ==
  IF k = 0 THEN <<>>
  ELSE [i \in 1..k |->
          mc_sample(last.villain[1], Some(last.hero), last.board_known,
                    IF i = 1 THEN r
                    ELSE SampleScores(i - 1, r).rng).score2]

\* C23: for two disjoint 2-card hands and the same board completions, every
\* sample's score of (hero, villain) and of (villain, hero) add up to 1, a
\* win and a loss or two halves, so the two equities add up to 1.
C23_EquitySymmetry ==
  last.outcome # "called" /\ FixedVillain =>
    Bind(SampleScores(last.result[1].n, seed_from_u64(config.seed)).scores, LAMBDA a :
    Bind(SwappedScores(last.result[1].n, seed_from_u64(config.seed)), LAMBDA b :
      /\ \A i \in 1..Len(a) : a[i] + b[i] = 2
      /\ Bind(monte_carlo_equity(last.villain[1], Some(last.hero), last.board_known,
                                 config.mc_samples, seed_from_u64(config.seed)),
              LAMBDA swapped :
           /\ ~swapped.panic
           /\ swapped.n = last.result[1].n
           /\ last.result[1].w + swapped.w = 2 * last.result[1].n)))

\* a call on a full board of 5 cards with a fixed villain, 2 samples, won by
\* hero
C23_Witness ==
  /\ last.outcome = "returned"
  /\ FixedVillain
  /\ Len(last.board_known) = 5
  /\ last.result[1].n = 2
  /\ last.result[1].w = 4

\* a call on a full board of 5 cards with a fixed villain in which a sample
\* was tied
C23_TieReached ==
  /\ last.outcome = "returned"
  /\ FixedVillain
  /\ Len(last.board_known) = 5
  /\ 1 \in {SampleScores(last.result[1].n, seed_from_u64(config.seed)).scores[i] :
              i \in 1..last.result[1].n}


\* ------------------------------------------------- evaluating five cards

\* the cards the evaluated hands are drawn from: four Aces, three Twos, two
\* each of Three, Four and Five, a Six and a King, then a Seven and a Queen
EvalPool ==
  <<Card(14, 1), Card(14, 2), Card(14, 3), Card(14, 4),
    Card(2, 1), Card(2, 2), Card(2, 3),
    Card(3, 1), Card(3, 2), Card(4, 1), Card(4, 2), Card(5, 1), Card(5, 2),
    Card(6, 3), Card(13, 1), Card(7, 4), Card(12, 3)>>

\* cards: &[Card; 5], five distinct cards of the pool
EvalHands == {[i \in 1..5 |-> EvalPool[t[i]]] : t \in combinations5(MaxPoolCards)}

InitEvaluate ==
  \E cards \in EvalHands :
    /\ rng = seed_from_u64(0)
    /\ config = [hands |-> 1, mc_samples |-> 1, rival_style |-> "Balanced", seed |-> 0]
    /\ profile = resolve("Balanced")
    /\ current_hand = None
    /\ summary = SessionSummary(0, 0, 0)
    /\ last = [outcome |-> "called", cards |-> cards, result |-> None]
    /\ calls = [total |-> 0, rejected |-> 0, hand |-> 0]

\* evaluate_five(cards)
EvaluateCall ==
  /\ last.outcome = "called"
  /\ last' = [last EXCEPT !.outcome = "returned",
                          !.result = Some(evaluate_five(last.cards))]
  /\ UNCHANGED <<rng, config, profile, current_hand, summary, calls>>

SpecEvaluate == InitEvaluate /\ [][EvaluateCall]_vars

\* the ranks of the evaluated cards, and whether they share one suit
RanksOf(cards) == {rank_value(cards[i]) : i \in 1..Len(cards)}
OneSuit(cards) == \A i \in 1..Len(cards) : suit_of(cards[i]) = suit_of(cards[1])
WheelRanks == {14, 2, 3, 4, 5}
Evaluated == last.outcome = "returned"

\* a straight of mixed suits with the given highest rank, 6..14
StraightOf(high) ==
  <<Card(high, 1), Card(high - 1, 2), Card(high - 2, 1), Card(high - 3, 1),
    Card(high - 4, 1)>>

\* C24: five cards A, 2, 3, 4, 5 that are not a flush evaluate to a Straight
\* whose first tie-break rank is 5, strictly weaker than every straight of
\* high card 6 to Ace; any other five cards holding an Ace and a Two are
\* not evaluated as a straight
C24_WheelIsLowestStraight ==
  Evaluated =>
    /\ (RanksOf(last.cards) = WheelRanks /\ ~OneSuit(last.cards)) =>
         /\ last.result[1].category = Straight
         /\ last.result[1].ranks[1] = 5
         /\ \A high \in 6..14 :
              /\ evaluate_five(StraightOf(high)).category = Straight
              /\ compare_strength(last.result[1], evaluate_five(StraightOf(high))) = "Less"
    /\ ({14, 2} \subseteq RanksOf(last.cards) /\ RanksOf(last.cards) # WheelRanks) =>
         last.result[1].category \notin {Straight, StraightFlush}

\* a wheel of mixed suits has been evaluated
C24_Witness ==
  /\ Evaluated
  /\ RanksOf(last.cards) = WheelRanks
  /\ ~OneSuit(last.cards)
  /\ last.result[1] = HandStrength(Straight, <<5, 4, 3, 2, 1>>)

\* K, A, 2, 3, 4 has been evaluated, and is no straight
C24_KingAceTwoReached ==
  /\ Evaluated
  /\ RanksOf(last.cards) = {13, 14, 2, 3, 4}
  /\ last.result[1].category = HighCard


\* the category of five distinct cards by the rules of poker: the number of
\* distinct ranks, the largest group of one rank, one suit, consecutive
\* ranks (the Ace also below the Two)
StandardCategory(cards) ==
  LET R == RanksOf(cards)
      most == CHOOSE m \in 1..4 :
                /\ \E r \in R : Cardinality({i \in 1..5 : rank_value(cards[i]) = r}) = m
                /\ \A r \in R : Cardinality({i \in 1..5 : rank_value(cards[i]) = r}) <= m
      low == CHOOSE r \in R : \A q \in R : r <= q
      top == CHOOSE r \in R : \A q \in R : r >= q
      straight == Cardinality(R) = 5 /\ (top - low = 4 \/ R = WheelRanks)
  IN IF straight /\ OneSuit(cards) THEN StraightFlush
     ELSE IF most = 4 THEN FourOfAKind
     ELSE IF Cardinality(R) = 2 THEN FullHouse
     ELSE IF OneSuit(cards) THEN Flush
     ELSE IF straight THEN Straight
     ELSE IF most = 3 THEN ThreeOfAKind
     ELSE IF Cardinality(R) = 3 THEN TwoPair
     ELSE IF Cardinality(R) = 4 THEN OnePair
     ELSE HighCard

\* five cards of the given ranks: of mixed suits, or all of Spades
Mixed(ranks) == [i \in 1..5 |-> Card(ranks[i], ((i - 1) % 4) + 1)]
Suited(ranks) == [i \in 1..5 |-> Card(ranks[i], 4)]

\* the weakest and the strongest hand of every category
ReferenceHands ==
  {Mixed(<<7, 5, 4, 3, 2>>), Mixed(<<14, 13, 12, 11, 9>>),
   Mixed(<<2, 2, 3, 4, 5>>), Mixed(<<14, 14, 13, 12, 11>>),
   Mixed(<<3, 3, 2, 2, 4>>), Mixed(<<14, 14, 13, 13, 12>>),
   Mixed(<<2, 2, 2, 3, 4>>), Mixed(<<14, 14, 14, 13, 12>>),
   Mixed(<<14, 2, 3, 4, 5>>), Mixed(<<14, 13, 12, 11, 10>>),
   Suited(<<7, 5, 4, 3, 2>>), Suited(<<14, 13, 12, 11, 9>>),
   Mixed(<<2, 2, 2, 3, 3>>), Mixed(<<14, 14, 14, 13, 13>>),
   Mixed(<<2, 2, 2, 2, 3>>), Mixed(<<14, 14, 14, 14, 13>>),
   Suited(<<14, 2, 3, 4, 5>>), Suited(<<14, 13, 12, 11, 10>>)}
References ==
  {[category |-> StandardCategory(h), strength |-> evaluate_five(h)] : h \in ReferenceHands}

\* C25: evaluate_five gives five distinct cards their standard category, and
\* a hand of a higher category compares strictly greater than a hand of a
\* lower one, whatever the ranks of the two
C25_CategoryDecidesOrder ==
  /\ \A ref \in References : ref.strength.category = ref.category
  /\ {ref.category : ref \in References} = HighCard..StraightFlush
  /\ Evaluated =>
       /\ last.result[1].category = StandardCategory(last.cards)
       /\ \A ref \in References :
            /\ StandardCategory(last.cards) > ref.category =>
                 compare_strength(last.result[1], ref.strength) = "Greater"
            /\ StandardCategory(last.cards) < ref.category =>
                 compare_strength(last.result[1], ref.strength) = "Less"

\* a pair of Twos has been evaluated and beats Ace-King-Queen-Jack-Nine
C25_Witness ==
  /\ Evaluated
  /\ StandardCategory(last.cards) = OnePair
  /\ RanksOf(last.cards) = {2, 3, 4, 5}
  /\ last.result[1].ranks[1] = 2
  /\ compare_strength(last.result[1], evaluate_five(Mixed(<<14, 13, 12, 11, 9>>))) = "Greater"

\* a flush of low ranks has been evaluated and loses to the lowest full house
C25_FlushBelowFullHouseReached ==
  /\ Evaluated
  /\ StandardCategory(last.cards) = Flush
  /\ compare_strength(last.result[1], evaluate_five(Mixed(<<2, 2, 2, 3, 3>>))) = "Less"


\* ------------------------------------------- the best five of n cards

\* the cards the sets are drawn from: the Clubs from Ace to Ten, three
\* Nines, the Two of Clubs, then the Ace of Diamonds
BestPool ==
  <<Card(14, 1), Card(9, 2), Card(13, 1), Card(9, 3), Card(12, 1),
    Card(2, 1), Card(11, 1), Card(9, 4), Card(10, 1), Card(14, 2)>>

Reversed(s) == [i \in 1..Len(s) |-> s[Len(s) + 1 - i]]
Rotated(s) == IF Len(s) < 2 THEN s ELSE SubSeq(s, 3, Len(s)) \o SubSeq(s, 1, 2)

\* cards: &[Card], distinct cards of the pool in three orders
BestArgs ==
  UNION {{s, Reversed(s), Rotated(s)} :
           s \in {SelectSeq([i \in 1..MaxBestPool |-> i], LAMBDA i : i \in P) :
                    P \in {Q \in SUBSET (1..MaxBestPool) : Cardinality(Q) <= MaxBestCards}}}

InitBestFive ==
  \E positions \in BestArgs :
    /\ rng = seed_from_u64(0)
    /\ config = [hands |-> 1, mc_samples |-> 1, rival_style |-> "Balanced", seed |-> 0]
    /\ profile = resolve("Balanced")
    /\ current_hand = None
    /\ summary = SessionSummary(0, 0, 0)
    /\ last = [outcome |-> "called",
               cards |-> [i \in 1..Len(positions) |-> BestPool[positions[i]]],
               result |-> None]
    /\ calls = [total |-> 0, rejected |-> 0, hand |-> 0]

\* best_five_card_hand(cards): the call panics or returns a HandStrength
BestFiveCall ==
  /\ last.outcome = "called"
  /\ \E r \in {best_five_card_hand(last.cards)} :
       last' = [last EXCEPT !.outcome = IF r = Panic THEN "panicked" ELSE "returned",
                            !.result = Some(r)]
  /\ UNCHANGED <<rng, config, profile, current_hand, summary, calls>>

SpecBestFive == InitBestFive /\ [][BestFiveCall]_vars

\* the strengths of all the five-card subsets of a set of cards
RECURSIVE SeqOfSet(_)
SeqOfSet(S) ==
  IF S = {} THEN <<>>
  ELSE LET c == CHOOSE x \in S : \A y \in S : x <= y IN <<c>> \o SeqOfSet(S \ {c})
SubsetStrengths(S) ==
  {evaluate_five(SeqOfSet(F)) : F \in {G \in SUBSET S : Cardinality(G) = 5}}
CardSet(cards) == {cards[i] : i \in 1..Len(cards)}

\* C26: for n >= 5 distinct cards, whatever n and whatever their order,
\* best_five_card_hand returns the greatest strength among the five-card
\* subsets of the cards; with fewer than 5 cards it aborts
C26_BestOfAllSubsets ==
  /\ last.outcome = "panicked" <=> (last.outcome # "called" /\ Len(last.cards) < 5)
  /\ last.outcome = "returned" =>
       /\ Len(last.cards) >= 5
       /\ Cardinality(SubsetStrengths(CardSet(last.cards))) >= 1
       /\ last.result[1] \in SubsetStrengths(CardSet(last.cards))
       /\ \A x \in SubsetStrengths(CardSet(last.cards)) :
            strength_cmp(x, last.result[1]) # "Greater"
       /\ last.result[1] = best_five_card_hand(Reversed(last.cards))

\* the best hand of six cards has been returned and beats the first five
C26_Witness ==
  /\ last.outcome = "returned"
  /\ Len(last.cards) = 6
  /\ strength_cmp(last.result[1], evaluate_five(SubSeq(last.cards, 1, 5))) = "Greater"
  /\ strength_cmp(last.result[1], evaluate_five(SubSeq(last.cards, 2, 6))) = "Greater"

\* four cards have been given and the call has aborted
C26_ShortRejectedReached ==
  /\ last.outcome = "panicked"
  /\ Len(last.cards) = 4

\* five cards and seven cards have been given and a strength returned
C26_FiveCardsReached == last.outcome = "returned" /\ Len(last.cards) = 5
C26_SevenCardsReached ==
  /\ last.outcome = "returned"
  /\ Len(last.cards) = MaxBestCards
  /\ last.result[1].category = StraightFlush


\* ------------------------------------------- the opponent profile alone

\* the denominator of a hint: 28.0 in hundredths
HintDen == 2800

\* hero_cards: &[Card; 2], two distinct cards of the deck
HolePairs ==
  {<<standard_deck[i], standard_deck[j]>> :
     i \in 1..Len(standard_deck), j \in 1..Len(standard_deck)} \
  {<<standard_deck[i], standard_deck[i]>> : i \in 1..Len(standard_deck)}

\* hero_strength: f32, the hints of all the hole cards and a grid over [0, 1]
Hints ==
  {hand_strength_hint(c) : c \in HolePairs} \cup {100 * k : k \in 0..(HintDen \div 100)}

\* the record of a call: the operation, its arguments and its result
RivalCall(op) ==
  [op |-> op, hero_cards |-> None, hint |-> 0, street |-> "Preflop", w |-> 0, n |-> 1,
   result |-> 0]

InitRival ==
  \E style \in RivalStyle :
    /\ rng = seed_from_u64(0)
    /\ config = [hands |-> 1, mc_samples |-> 1, rival_style |-> style, seed |-> 0]
    /\ profile = resolve(style)
    /\ current_hand = None
    /\ summary = SessionSummary(0, 0, 0)
    /\ last = RivalCall("resolve")
    /\ calls = [total |-> 0, rejected |-> 0, hand |-> 0]

\* the methods take &self and leave the profile as it is: one call is made
\* on each resolved profile

\* profile.hand_strength_hint(&hero_cards)
HintCall ==
  /\ last.op = "resolve"
  /\ \E hero_cards \in HolePairs :
       last' = [RivalCall("hand_strength_hint") EXCEPT
                  !.hero_cards = Some(hero_cards),
                  !.result = hand_strength_hint(hero_cards)]
  /\ UNCHANGED <<rng, config, profile, current_hand, summary, calls>>

\* profile.fold_to_three_bet(hero_strength)
FoldToThreeBetCall ==
  /\ last.op = "resolve"
  /\ \E hint \in Hints :
       last' = [RivalCall("fold_to_three_bet") EXCEPT
                  !.hint = hint,
                  !.result = fold_to_three_bet(profile, hint)]
  /\ UNCHANGED <<rng, config, profile, current_hand, summary, calls>>

\* fold_probability(profile, equity, street) with equity = w / (2 * n)
FoldProbabilityCall ==
  /\ last.op = "resolve"
  /\ \E street \in {StreetOrder[i] : i \in 1..Len(StreetOrder)},
        n \in 1..MaxRivalSamples :
       \E w \in 0..(2 * n) :
         last' = [RivalCall("fold_probability") EXCEPT
                    !.street = street, !.w = w, !.n = n,
                    !.result = fold_probability(profile, w, n, street)]
  /\ UNCHANGED <<rng, config, profile, current_hand, summary, calls>>

NextRival == HintCall \/ FoldToThreeBetCall \/ FoldProbabilityCall
SpecRival == InitRival /\ [][NextRival]_vars

\* C27: for every profile the fold-to-raise probability does not decrease
\* when the hero strength hint grows
C27_FoldToRaiseNonDecreasing ==
  last.op = "fold_to_three_bet" =>
    \A hint \in Hints :
      hint >= last.hint => fold_to_three_bet(profile, hint) >= last.result

\* for every profile the fold-to-raise probability does not grow when the
\* hero strength hint grows
C27_FoldToRaiseNonIncreasing ==
  last.op = "fold_to_three_bet" =>
    \A hint \in Hints :
      hint >= last.hint => fold_to_three_bet(profile, hint) <= last.result

\* the fold-to-raise probability for the hint of two Aces has been computed
\* and is lower than the one for Seven-Two of two suits
C27_StrongerFoldsLessReached ==
  /\ last.op = "fold_to_three_bet"
  /\ last.hint = hand_strength_hint(<<Card(14, 1), Card(14, 2)>>)
  /\ last.result < fold_to_three_bet(profile, hand_strength_hint(<<Card(7, 1), Card(2, 2)>>))


\* C28: the five parameters of every preset are in [0, 1]; the hint of every
\* two hole cards is in [0, 1]; the fold-to-raise probability of every
\* hint is in [0.05, 0.85]; the postflop fold probability of every profile,
\* street and equity in [0, 1] is in [0.05, 0.9]
C28_ProbabilitiesInBounds ==
  /\ \A p \in {profile.preflop_fold_to_three_bet, profile.flop_continuation_bet,
               profile.turn_barrel_frequency, profile.river_probe_frequency,
               profile.aggression} : 0 <= p /\ p <= 100
  /\ last.op = "hand_strength_hint" => (0 <= last.result /\ last.result <= HintDen)
  /\ last.op = "fold_to_three_bet" =>
       (5 * 8000 <= 100 * last.result /\ 100 * last.result <= 85 * 8000)
  /\ last.op = "fold_probability" =>
       /\ last.w <= 2 * last.n
       /\ 5 * 1000 * last.n <= 100 * last.result
       /\ 100 * last.result <= 90 * 1000 * last.n

\* the hint of two Aces has been computed: 1.25 before the clamp, 1 after
C28_Witness ==
  /\ last.op = "hand_strength_hint"
  /\ rank_value(last.hero_cards[1][1]) = Ace
  /\ rank_value(last.hero_cards[1][2]) = Ace
  /\ last.result = HintDen

\* the fold-to-raise probability of the hint 0 and the fold probability on
\* the river against an equity of 1 have been computed
C28_FoldToRaiseReached ==
  /\ last.op = "fold_to_three_bet"
  /\ last.hint = 0
  /\ last.result = profile.preflop_fold_to_three_bet * 80 + 1400
C28_FoldProbabilityReached ==
  /\ last.op = "fold_probability"
  /\ last.street = "River"
  /\ last.w = 2 * last.n
  /\ last.n = MaxRivalSamples


\* ------------------------------------------------------ the HTTP handlers

\* One session of AppState.sessions, held in its Mutex.  calls holds the
\* mutex (0 when free, else the request that holds the guard), the number of
\* requests received and the requests in flight; a request has its handler
\* ("apply_action" or "fetch_session"), its place in the handler (pc), the
\* action of its body, produced, the snapshot of the session as its own
\* apply_action call left it, and response, the snapshot it answers with.
\* last.serial holds the session's fields as the requests leave them when
\* run one after the other in the order in which they took the mutex.
Fields == [current_hand |-> current_hand, rng |-> rng, summary |-> summary]

IdleRequest ==
  [handler |-> "none", pc |-> "idle", action |-> None, produced |-> None,
   response |-> None]

WebConfigInputs ==
  [hands : {MaxHands}, mc_samples : {MaxSamples}, rival_style : {"Balanced"},
   seed : 0..MaxSeed]

\* start_session: Session::new(config) and AppState::insert_session
InitWeb ==
  \E cfg \in WebConfigInputs :
    \E s \in {Session_new(cfg)} :
       /\ config = s.config
       /\ profile = s.profile
       /\ rng = s.rng
       /\ current_hand = s.current_hand
       /\ summary = s.summary
       /\ last = [serial |-> Second(s)]
       /\ calls = [total |-> 0, mutex |-> 0,
                   req |-> [p \in 1..MaxRequests |-> IdleRequest]]

\* Session::snapshot with the fault of computing the menu of a live hand on
\* every call
Session_snapshot_recomputes(s) ==
  IF s.current_hand # None /\ ~s.current_hand[1].completed
    THEN Bind(compute_options(s.current_hand[1], s.rng, profile, Samples), LAMBDA co :
           [s EXCEPT !.current_hand = Some(co.hand), !.rng = co.rng])
    ELSE s

\* Session::snapshot (&mut self) on the session whose fields are s
Session_snapshot(s) ==
  IF s.current_hand # None /\ s.current_hand[1].options = <<>>
      /\ ~s.current_hand[1].completed
    THEN Bind(compute_options(s.current_hand[1], s.rng, profile, Samples), LAMBDA co :
           [s EXCEPT !.current_hand = Some(co.hand), !.rng = co.rng])
    ELSE s

\* what a handler does under the guard, on the session whose fields are s
Handled(s, r) ==
  Session_snapshot(IF r.handler = "apply_action" THEN Session_step(s, r.action[1]) ELSE s)

\* a request is received: get_session finds the session and clones its Arc
WebArrive(p) ==
  /\ calls.req[p].pc = "idle"
  /\ calls.total < MaxWebCalls
  /\ \E r \in {[IdleRequest EXCEPT !.handler = "fetch_session", !.pc = "arrived"]}
         \cup {[IdleRequest EXCEPT !.handler = "apply_action", !.pc = "arrived",
                                   !.action = Some(a)] : a \in TwoActionInputs} :
       calls' = [calls EXCEPT !.total = @ + 1, !.req[p] = r]
  /\ UNCHANGED <<rng, config, profile, current_hand, summary, last>>

\* session_arc.lock() with the fault of not waiting for the mutex
WebLock_no_wait(p) ==
  /\ calls.req[p].pc = "arrived"
  /\ calls' = [calls EXCEPT !.mutex = p, !.req[p].pc = "locked"]
  /\ last' = [last EXCEPT !.serial = Handled(last.serial, calls.req[p])]
  /\ UNCHANGED <<rng, config, profile, current_hand, summary>>

\* session_arc.lock(): the request waits until the mutex is free
WebLock(p) ==
  /\ calls.req[p].pc = "arrived"
  /\ calls.mutex = 0
  /\ calls' = [calls EXCEPT !.mutex = p, !.req[p].pc = "locked"]
  /\ last' = [last EXCEPT !.serial = Handled(last.serial, calls.req[p])]
  /\ UNCHANGED <<rng, config, profile, current_hand, summary>>

\* session.apply_action(&req.action) in the apply_action handler
WebApply(p) ==
  /\ calls.req[p].pc = "locked"
  /\ calls.req[p].handler = "apply_action"
  /\ \E s \in {Session_step(Fields, calls.req[p].action[1])} :
       /\ current_hand' = s.current_hand
       /\ rng' = s.rng
       /\ summary' = s.summary
       /\ calls' = [calls EXCEPT !.req[p].pc = "applied",
                                 !.req[p].produced =
                                   Some(SessionState(s.current_hand, s.summary))]
  /\ UNCHANGED <<config, profile, last>>

\* session.snapshot() in either handler
WebSnapshot(p) ==
  /\ \/ calls.req[p].pc = "applied"
     \/ calls.req[p].pc = "locked" /\ calls.req[p].handler = "fetch_session"
  /\ \E s \in {Session_snapshot(Fields)} :
       /\ current_hand' = s.current_hand
       /\ rng' = s.rng
       /\ summary' = s.summary
       /\ calls' = [calls EXCEPT !.req[p].pc = "snapshot",
                                 !.req[p].response =
                                   Some(SessionState(s.current_hand, s.summary))]
  /\ UNCHANGED <<config, profile, last>>

\* the handler returns Ok(Json(..)): the guard is dropped, the request is over
WebRespond(p) ==
  /\ calls.req[p].pc = "snapshot"
  /\ calls' = [calls EXCEPT !.mutex = IF @ = p THEN 0 ELSE @, !.req[p] = IdleRequest]
  /\ UNCHANGED <<rng, config, profile, current_hand, summary, last>>

NextWeb ==
  \E p \in 1..MaxRequests :
    WebArrive(p) \/ WebLock(p) \/ WebApply(p) \/ WebSnapshot(p) \/ WebRespond(p)

SpecWeb == InitWeb /\ [][NextWeb]_vars

\* the requests that hold the guard
UnderGuard == {p \in 1..MaxRequests : calls.req[p].pc \in {"locked", "applied", "snapshot"}}

\* C29: of the requests on one session at most one is between taking the
\* mutex and answering; the answer of an action request is the snapshot of
\* the session as its own action left it; and whenever no request holds the
\* mutex the session is as the requests leave it when run one after the
\* other, in the order in which they took the mutex
C29_RequestsSerialized ==
  /\ Cardinality(UnderGuard) <= 1
  /\ UnderGuard = (IF calls.mutex = 0 THEN {} ELSE {calls.mutex})
  /\ \A p \in 1..MaxRequests :
       (calls.req[p].handler = "apply_action" /\ calls.req[p].pc = "snapshot")
         => calls.req[p].response = calls.req[p].produced
  /\ UnderGuard = {} => Fields = last.serial

\* an action request has changed the session and taken its answer while a
\* second action request waits for the mutex
C29_Witness ==
  \E p, q \in 1..MaxRequests :
    /\ p # q
    /\ calls.req[p].handler = "apply_action"
    /\ calls.req[p].pc = "snapshot"
    /\ calls.req[p].response = calls.req[p].produced
    /\ \/ calls.req[p].response[1].node.street # "Preflop"
       \/ calls.req[p].response[1].hand_index > 1
    /\ calls.req[q].handler = "apply_action"
    /\ calls.req[q].pc = "arrived"

\* all the requests have been answered and have left the session in its
\* second hand, past the Preflop street
C29_AllAnsweredReached ==
  /\ calls.total = MaxWebCalls
  /\ \A p \in 1..MaxRequests : calls.req[p].pc = "idle"
  /\ Fields = last.serial
  /\ summary.hands_played = 1
  /\ current_hand # None
  /\ current_hand[1].state.street = "Flop"


\* the bet size as stated: min(max(pot * m, 0.5), stack) with m = 0.5, 0.6,
\* 0.75 on the Flop, Turn and River, and the stack when that is below 0.5
StatedBetSize(street, pot, stack) ==
  LET num == CASE street = "Flop" -> 50 [] street = "Turn" -> 60 [] street = "River" -> 75
      value == Min(Max((pot * num) \div 100, BB \div 2), stack)
  IN IF 2 * value < BB THEN stack ELSE value

\* the Bet option of a menu, None when the menu has none
BetOption(options) ==
  LET bets == SelectSeq(options, LAMBDA o : o.action.kind = "Bet")
  IN IF bets = <<>> THEN None ELSE Some(bets[1])

\* the hands whose menu the session has computed: its live hand, and the
\* hand the last call was made on
MenuHands ==
  (IF current_hand # None /\ ~current_hand[1].completed THEN {current_hand[1]} ELSE {})
    \cup (IF last.before # None THEN {last.before[1].hand} ELSE {})

\* pots and effective stacks from nothing to the full stacks, in units
BetPots == {0, 1, BB \div 4, BB \div 2, BB - 1, BB, 4 * BB, 18 * BB, 100 * BB, 2 * MAX_STACK_BB}
BetStacks == {0, 1, BB \div 4, (BB \div 2) - 1, BB \div 2, BB, 9 * BB, 91 * BB, MAX_STACK_BB}

\* C30: on the Flop, Turn and River the menu's Bet has the stated size, which
\* never exceeds the effective stack, for the hands played and for every pot
\* and stack; an accepted Bet adds to hero's investment the size offered
C30_BetSizeOfferedAndInvested ==
  /\ \A street \in {"Flop", "Turn", "River"}, pot \in BetPots, stack \in BetStacks :
       /\ offered_bet_size(street, pot, stack) = StatedBetSize(street, pot, stack)
       /\ offered_bet_size(street, pot, stack) <= stack
  /\ \A h \in MenuHands :
       h.state.street \in {"Flop", "Turn", "River"} =>
         /\ BetOption(h.options) # None
         /\ BetOption(h.options)[1].action.size_bb
              = Some(StatedBetSize(h.state.street, h.state.pot_bb,
                                   h.state.effective_stack_bb))
         /\ BetOption(h.options)[1].action.size_bb[1] <= h.state.effective_stack_bb
  /\ AcceptedOn("Bet", {"Flop", "Turn", "River"}) =>
       /\ last.action[1] = BetOption(last.before[1].hand.options)[1].action
       /\ last.hand[1].state.hero_invested_bb
            = last.before[1].hand.state.hero_invested_bb
                + BetOption(last.before[1].hand.options)[1].action.size_bb[1]

\* a Bet of three fifths of the pot has been offered and accepted on the Turn
C30_Witness ==
  /\ AcceptedOn("Bet", {"Turn"})
  /\ 5 * last.action[1].size_bb[1] = 3 * last.before[1].hand.state.pot_bb
  /\ last.hand[1].state.hero_invested_bb
       = last.before[1].hand.state.hero_invested_bb + last.action[1].size_bb[1]

\* a Bet has been accepted on the Flop, and one on the River
C30_FlopBetReached ==
  /\ AcceptedOn("Bet", {"Flop"})
  /\ 2 * last.action[1].size_bb[1] = last.before[1].hand.state.pot_bb
C30_RiverBetReached ==
  /\ AcceptedOn("Bet", {"River"})
  /\ 4 * last.action[1].size_bb[1] = 3 * last.before[1].hand.state.pot_bb


\* C31: an action absent from the menu leaves the session's random stream,
\* and with it the hand and its menu, as they were
C31_RejectedKeepsStream ==
  Rejected =>
    /\ rng = last.before[1].rng
    /\ current_hand = Some(last.before[1].hand)

\* an action absent from the menu has the menu computed anew, from the stream
\* as the call found it, on the state the call found
C31_RejectedRedrawsMenu ==
  Rejected =>
    /\ last.stream = Some(last.before[1].rng)
    /\ current_hand # None
    /\ current_hand[1].state = last.before[1].hand.state
    /\ current_hand[1].menu_of
         = Some([state |-> last.before[1].hand.state, rng |-> last.before[1].rng])

\* a rejected action has moved the stream and changed the EVs of the menu
C31_StreamMovedReached ==
  /\ Rejected
  /\ rng # last.before[1].rng
  /\ current_hand[1].options # last.before[1].hand.options
  /\ MenuActions(current_hand[1]) = MenuActions(last.before[1].hand)


\* C32: at every decision point on the Flop, Turn and River the two
\* investments are equal and the pot is twice hero's; a tie at showdown
\* pays a profit of 0
C32_EqualInvestmentsAfterPreflop ==
  /\ \A h \in MenuHands :
       h.state.street \in {"Flop", "Turn", "River"} =>
         /\ h.state.hero_invested_bb = h.state.villain_invested_bb
         /\ h.state.pot_bb = 2 * h.state.hero_invested_bb
  /\ (AtShowdown /\ ShowdownOrder(last.hand[1]) = "Equal") =>
       /\ last.hand[1].state.hero_invested_bb = last.hand[1].state.villain_invested_bb
       /\ last.progress.profit_bb = 0

\* a River Bet the opponent called, and the tie at showdown that pays 0
C32_Witness ==
  /\ AcceptedOn("Bet", {"River"})
  /\ AtShowdown
  /\ ShowdownOrder(last.hand[1]) = "Equal"
  /\ last.hand[1].state.pot_bb = 2 * last.hand[1].state.hero_invested_bb
  /\ last.hand[1].state.pot_bb > last.before[1].hand.state.pot_bb
  /\ last.progress.profit_bb = 0

\* a decision point on the Turn after a Flop Bet the opponent called
C32_TurnAfterBetReached ==
  /\ AcceptedOn("Bet", {"Flop"})
  /\ current_hand # None
  /\ current_hand[1].state.street = "Turn"
  /\ current_hand[1].state.pot_bb = 2 * current_hand[1].state.hero_invested_bb
  /\ current_hand[1].state.pot_bb > last.before[1].hand.state.pot_bb


\* the bet before the cap: the street's share of the pot, at least 0.5bb
UncappedBetSize(street, pot) ==
  Max(CASE street = "Flop" -> (pot * 50) \div 100
        [] street = "Turn" -> (pot * 60) \div 100
        [] street = "River" -> (pot * 75) \div 100,
      BB \div 2)

\* C33: no investment exceeds the 100bb stack; at every decision point the
\* effective stack is positive; the Bet offered is the uncapped size, within
\* the effective stack, and is not zero
C33_StacksNeverExhausted ==
  /\ \A h \in HandsSeen :
       /\ h.state.hero_invested_bb <= MAX_STACK_BB
       /\ h.state.villain_invested_bb <= MAX_STACK_BB
  /\ \A h \in MenuHands :
       /\ h.state.effective_stack_bb > 0
       /\ h.state.street \in {"Flop", "Turn", "River"} =>
            /\ BetOption(h.options) # None
            /\ BetOption(h.options)[1].action.size_bb
                 = Some(UncappedBetSize(h.state.street, h.state.pot_bb))
            /\ UncappedBetSize(h.state.street, h.state.pot_bb) <= h.state.effective_stack_bb
            /\ BetOption(h.options)[1].action.size_bb[1] > 0

\* the deepest line: the Raise, the Flop Bet and the Turn Bet called, and the
\* River Bet of 59.4bb accepted with 60.4bb behind, which leaves hero 99bb in
C33_Witness ==
  /\ AcceptedOn("Bet", {"River"})
  /\ last.before[1].hand.state.hero_invested_bb = (396 * BB) \div 10
  /\ last.before[1].hand.state.effective_stack_bb = (604 * BB) \div 10
  /\ last.action[1].size_bb[1] = (594 * BB) \div 10
  /\ last.hand[1].state.hero_invested_bb = 99 * BB


\* C34: once snapshot() has status Completed, every step (an apply_action
\* with any action, a snapshot) leaves the session as it is: the next
\* snapshot is Completed with the same summary, street Terminal and no options
C34_CompletedStays ==
  [][Snapshot.status = "Completed" =>
       /\ current_hand' = current_hand
       /\ rng' = rng
       /\ summary' = summary
       /\ Snapshot' = Snapshot
       /\ Snapshot'.status = "Completed"
       /\ Snapshot'.node.street = "Terminal"
       /\ Snapshot'.node.action_options = <<>>]_vars

\* an apply_action call on a session that has played all its hands
C34_Witness ==
  /\ Snapshot.status = "Completed"
  /\ last.outcome = "ignored"
  /\ summary.hands_played = config.hands
  /\ current_hand = None


\* C35: in every state of a session snapshot() leaves the hand, the summary
\* and the random stream as they are, so that a second call returns the
\* state the first returned and the calls that follow find the session as it
\* would be without them
C35_SnapshotReadsOnly ==
  /\ Session_snapshot(Fields) = Fields
  /\ SessionState(Session_snapshot(Fields).current_hand,
                  Session_snapshot(Fields).summary) = Snapshot
  /\ current_hand # None => current_hand[1].options # <<>>

\* a live hand on the Turn, with its menu, after an accepted action
C35_Witness ==
  /\ Accepted
  /\ current_hand # None
  /\ current_hand[1].state.street = "Turn"
  /\ Len(current_hand[1].options) = 2
  /\ Session_snapshot(Fields) = Fields
  /\ Snapshot.status = "AwaitingInput"

\* a session that has played its hands, and one whose last action was rejected
C35_CompletedReached ==
  /\ current_hand = None
  /\ Snapshot.status = "Completed"
  /\ Session_snapshot(Fields) = Fields
C35_AfterRejectedReached ==
  /\ Rejected
  /\ Session_snapshot(Fields) = Fields


\* the snapshots in view: the one snapshot() returns now, and the one it
\* returned before the last call
SnapshotsSeen ==
  {Snapshot} \cup (IF last.before # None THEN {last.before[1].state} ELSE {})

\* C36: a snapshot that awaits input shows a street from Preflop to River
\* and rival_cards_known false; no snapshot shows a hand at Showdown, or at
\* Terminal with cards; rival_cards_known is true only in the Completed
\* snapshot, which has no cards
C36_OpponentCardsStayHidden ==
  \A s \in SnapshotsSeen :
    /\ s.status \in {"AwaitingInput", "Completed"}
    /\ s.status = "AwaitingInput" =>
         /\ s.node.street \in {"Preflop", "Flop", "Turn", "River"}
         /\ s.node.rival_cards_known = FALSE
         /\ Len(s.node.hero_cards) = 2
    /\ s.node.street # "Showdown"
    /\ s.node.street = "Terminal" => s.status = "Completed"
    /\ s.node.rival_cards_known = TRUE =>
         /\ s.status = "Completed"
         /\ s.node.hero_cards = <<>>
         /\ s.node.board = <<>>
         /\ s.node.action_options = <<>>

\* the hand has ended at showdown, and the snapshot after it is Completed
C36_Witness ==
  /\ AtShowdown
  /\ last.hand[1].state.street = "Terminal"
  /\ last.hand[1].completed
  /\ Snapshot.status = "Completed"
  /\ Snapshot.node.rival_cards_known = TRUE
  /\ Snapshot.node.hero_cards = <<>>

\* a snapshot on the River, all five board cards shown, awaiting input
C36_RiverReached ==
  /\ Snapshot.status = "AwaitingInput"
  /\ Snapshot.node.street = "River"
  /\ Len(Snapshot.node.board) = 5
  /\ Snapshot.node.rival_cards_known = FALSE


\* every decision of the hand took an option of the largest EV on its menu
AllBest(h) ==
  \A i \in 1..Len(h.decisions) : h.decisions[i].chosen = MenuMax(h.decisions[i].offered)

\* C37 (under SpecAutoplay): autoplay_best applies at every decision an
\* option of the largest EV on the menu; every hand it completes reports an EV
\* loss of exactly 0, and the session's total_ev_loss_bb is 0 throughout and
\* in the summary returned
C37_BestPlayLosesNothing ==
  /\ \A h \in HandsSeen :
       /\ AllBest(h)
       /\ h.total_best_ev = h.total_chosen_ev
  /\ last.outcome # "rejected"
  /\ last.progress.completed => last.progress.ev_loss_bb = 0
  /\ summary.total_ev_loss_bb = 0

\* autoplay_best has returned after hands of several decisions, the last of
\* them completed at no loss
C37_Witness ==
  /\ Returned
  /\ summary.hands_played = MaxHands
  /\ calls.total > MaxHands
  /\ summary.total_ev_loss_bb = 0

\* a hand completed by its second or later best action
C37_LongHandReached ==
  /\ last.progress.completed
  /\ Len(last.hand[1].decisions) >= 2
  /\ AllBest(last.hand[1])
  /\ last.progress.ev_loss_bb = 0


\* nine pairwise distinct cards of the deck: two, two and five
NineCards(hero, villain, board) ==
  /\ Len(hero) = 2 /\ Len(villain) = 2 /\ Len(board) = 5
  /\ Cardinality({(hero \o villain \o board)[i] : i \in 1..9}) = 9
  /\ \A i \in 1..9 :
       \E j \in 1..Len(standard_deck) : standard_deck[j] = (hero \o villain \o board)[i]

\* the streams a sample of a hand in view is dealt from: the session's, and
\* the one the hand's menu was computed from
SampleStreams(h) ==
  {rng} \cup (IF h.menu_of # None THEN {h.menu_of[1].rng} ELSE {})

\* the samples of a hand in view: its hero cards against an unknown opponent
\* or its own opponent's cards, on the board known before the flop, on the
\* flop, on the turn and on the river
SamplesOf(h) ==
  {[board_known |-> SubSeq(h.board, 1, k),
    villain |-> v,
    deal |-> mc_deal(h.hero, v, SubSeq(h.board, 1, k), r)] :
     k \in {0, 3, 4, 5}, v \in {None, Some(h.villain)}, r \in SampleStreams(h)}

\* C38: the hero's two, the opponent's two and the five board cards of every
\* hand are nine pairwise distinct cards of the 52-card deck, set when the
\* hand is created and changed by no action; in every Monte Carlo sample on
\* valid inputs the two hero, two opponent and five board cards are nine
\* pairwise distinct cards, the known board cards first and unchanged, and a
\* fixed opponent hand kept
C38_NineDistinctCards ==
  /\ \A h \in HandsSeen : NineCards(h.hero, h.villain, h.board)
  /\ NineCards(Hand_new(rng).hand.hero, Hand_new(rng).hand.villain,
               Hand_new(rng).hand.board)
  /\ (last.before # None /\ last.hand # None) =>
       /\ last.hand[1].hero = last.before[1].hand.hero
       /\ last.hand[1].villain = last.before[1].hand.villain
       /\ last.hand[1].board = last.before[1].hand.board
  /\ (last.hand # None /\ current_hand # None /\ ~last.progress.completed) =>
       /\ current_hand[1].hero = last.hand[1].hero
       /\ current_hand[1].villain = last.hand[1].villain
       /\ current_hand[1].board = last.hand[1].board
  /\ \A h \in HandsSeen : \A s \in SamplesOf(h) :
       /\ ~s.deal.panic
       /\ NineCards(h.hero, s.deal.villain_cards, s.deal.board)
       /\ SubSeq(s.deal.board, 1, Len(s.board_known)) = s.board_known
       /\ s.villain # None => s.deal.villain_cards = s.villain[1]

\* C38 witness: an accepted action on the turn has left the hand's nine cards
\* as they were, and the sample dealt for the hand's menu, four board cards
\* known, draws the fifth and the opponent's two
C38_Witness ==
  /\ Accepted
  /\ current_hand # None
  /\ last.before[1].hand.state.street = "Turn"
  /\ current_hand[1].state.street = "River"
  /\ current_hand[1].board = last.before[1].hand.board
  /\ \E s \in SamplesOf(last.before[1].hand) :
       /\ Len(s.board_known) = 4 /\ s.villain = None
       /\ s.deal.board[5] # last.before[1].hand.board[5]
       /\ NineCards(last.before[1].hand.hero, s.deal.villain_cards, s.deal.board)

\* C38: a sample's fixed opponent hand is dealt around before the flop
C38_FixedOpponentReached ==
  /\ current_hand # None
  /\ current_hand[1].state.street = "Preflop"
  /\ \E s \in SamplesOf(current_hand[1]) :
       /\ s.board_known = <<>> /\ s.villain = Some(current_hand[1].villain)
       /\ s.deal.villain_cards = current_hand[1].villain
       /\ Len(s.deal.board) = 5


\* ------------------------------------------- the web handlers and their locks

\* the handlers that run at once, the sessions that are created, and the
\* requests that arrive
MaxTasks == 2
MaxSessions == 2
MaxArrivals == 3

Tasks == 1..MaxTasks
SessionIds == 1..MaxSessions

\* a task of the runtime with no request to handle
IdleTask == [handler |-> "idle", id |-> 0, pc |-> "idle"]

\* AppState::new: no session in the registry, no guard of the registry's
\* RwLock taken; mutex[i] is the task under the guard of session i's Mutex;
\* applied[i] counts the actions session i has been handed
InitRegistry ==
  /\ rng = seed_from_u64(0)
  /\ config = [hands |-> 1, mc_samples |-> 1, rival_style |-> "Balanced", seed |-> 0]
  /\ profile = resolve("Balanced")
  /\ current_hand = None
  /\ summary = SessionSummary(0, 0, 0)
  /\ last = [ok |-> 0, not_found |-> 0]
  /\ calls = [total |-> 0, created |-> 0, sessions |-> {},
              writer |-> 0, readers |-> {},
              mutex |-> [i \in SessionIds |-> 0],
              applied |-> [i \in SessionIds |-> 0],
              task |-> [t \in Tasks |-> IdleTask]]

\* what the registry steps leave alone
RegistryUnchanged == UNCHANGED <<rng, config, profile, current_hand, summary>>

\* start_session up to insert_session: Session::new gives the session a
\* fresh id
StartArrive(t) ==
  /\ calls.task[t].pc = "idle"
  /\ calls.total < MaxArrivals
  /\ calls.created < MaxSessions
  /\ calls' = [calls EXCEPT !.total = @ + 1, !.created = @ + 1,
                 !.task[t] = [handler |-> "start_session",
                              id |-> calls.created + 1, pc |-> "write"]]
  /\ UNCHANGED last
  /\ RegistryUnchanged

\* fetch_session and apply_action up to get_session, for any id
GetArrive(t) ==
  /\ calls.task[t].pc = "idle"
  /\ calls.total < MaxArrivals
  /\ \E h \in {"fetch_session", "apply_action"} : \E i \in SessionIds :
       calls' = [calls EXCEPT !.total = @ + 1,
                   !.task[t] = [handler |-> h, id |-> i, pc |-> "read"]]
  /\ UNCHANGED last
  /\ RegistryUnchanged

\* insert_session, self.sessions.write(): granted when no guard is out
InsertWrite(t) ==
  /\ calls.task[t].pc = "write"
  /\ calls.writer = 0
  /\ calls.readers = {}
  /\ calls' = [calls EXCEPT !.writer = t, !.task[t].pc = "inserting"]
  /\ UNCHANGED last
  /\ RegistryUnchanged

\* insert_session, .insert(id, entry.clone()): the write guard is a temporary
\* and is dropped at the end of the statement
insert_session(t) ==
  /\ calls.task[t].pc = "inserting"
  /\ calls' = [calls EXCEPT !.sessions = @ \cup {calls.task[t].id},
                 !.writer = 0, !.task[t].pc = "lock"]
  /\ UNCHANGED last
  /\ RegistryUnchanged

\* get_session, self.sessions.read(): granted when no writer holds the lock
\* and none waits for it
GetRead(t) ==
  /\ calls.task[t].pc = "read"
  /\ calls.writer = 0
  /\ \A u \in Tasks : calls.task[u].pc # "write"
  /\ calls' = [calls EXCEPT !.readers = @ \cup {t}, !.task[t].pc = "reading"]
  /\ UNCHANGED last
  /\ RegistryUnchanged

\* get_session with the fault of keeping the read guard past the statement
get_session_guard_kept(t) ==
  /\ calls.task[t].pc = "reading"
  /\ calls' = [calls EXCEPT
                 !.task[t].pc = IF calls.task[t].id \in calls.sessions
                                  THEN "lock" ELSE "failed"]
  /\ UNCHANGED last
  /\ RegistryUnchanged

\* get_session, .get(id).cloned(): the read guard is a temporary and is
\* dropped at the end of the statement; ok_or(ApiError::NotFound)? returns
\* for an id not in the registry
get_session(t) ==
  /\ calls.task[t].pc = "reading"
  /\ calls' = [calls EXCEPT !.readers = @ \ {t},
                 !.task[t].pc = IF calls.task[t].id \in calls.sessions
                                  THEN "lock" ELSE "failed"]
  /\ UNCHANGED last
  /\ RegistryUnchanged

\* session_arc.lock(): granted when no task is under the session's guard
SessionLock(t) ==
  /\ calls.task[t].pc = "lock"
  /\ calls.mutex[calls.task[t].id] = 0
  /\ calls' = [calls EXCEPT !.mutex[calls.task[t].id] = t,
                 !.task[t].pc = "locked"]
  /\ UNCHANGED last
  /\ RegistryUnchanged

\* under the guard: session.apply_action(&req.action) of apply_action, and
\* the snapshot() of every handler
SessionServe(t) ==
  /\ calls.task[t].pc = "locked"
  /\ calls' = [calls EXCEPT
                 !.applied[calls.task[t].id] =
                    IF calls.task[t].handler = "apply_action" THEN @ + 1 ELSE @,
                 !.task[t].pc = "served"]
  /\ UNCHANGED last
  /\ RegistryUnchanged

\* the handler returns: Ok(Json(snapshot)) drops the session's guard,
\* Err(ApiError::NotFound) holds none
Return(t) ==
  /\ calls.task[t].pc \in {"served", "failed"}
  /\ calls' = [calls EXCEPT
                 !.mutex = [i \in SessionIds |-> IF calls.mutex[i] = t THEN 0
                                                 ELSE calls.mutex[i]],
                 !.task[t] = IdleTask]
  /\ last' = IF calls.task[t].pc = "served"
               THEN [last EXCEPT !.ok = @ + 1]
             ELSE [last EXCEPT !.not_found = @ + 1]
  /\ RegistryUnchanged

\* the steps of a request in flight
TaskStep(t) ==
  \/ InsertWrite(t)
  \/ insert_session(t)
  \/ GetRead(t)
  \/ get_session(t)
  \/ SessionLock(t)
  \/ SessionServe(t)
  \/ Return(t)

NextRegistry ==
  \E t \in Tasks :
    \/ StartArrive(t)
    \/ GetArrive(t)
    \/ InsertWrite(t)
    \/ insert_session(t)
    \/ GetRead(t)
    \/ get_session(t)
    \/ SessionLock(t)
    \/ SessionServe(t)
    \/ Return(t)

\* the runtime polls every task that can run
SpecRegistry ==
  InitRegistry /\ [][NextRegistry]_vars /\ \A t \in Tasks : WF_vars(TaskStep(t))

\* the tasks with a guard of the registry, and the sessions whose guard a
\* task holds
HoldsRegistry(t) == calls.writer = t \/ t \in calls.readers
GuardsOf(t) == {i \in SessionIds : calls.mutex[i] = t}

\* the next step of a request in flight can be taken
CanStep(t) ==
  \/ calls.task[t].pc \in {"inserting", "reading", "locked", "served", "failed"}
  \/ calls.task[t].pc = "write" /\ calls.writer = 0 /\ calls.readers = {}
  \/ /\ calls.task[t].pc = "read"
     /\ calls.writer = 0
     /\ \A u \in Tasks : calls.task[u].pc # "write"
  \/ calls.task[t].pc = "lock" /\ calls.mutex[calls.task[t].id] = 0

\* no task waits for or holds a session's guard with a guard of the registry,
\* none holds the guards of two sessions, and with a request in flight some
\* request can take its next step
LocksNeverNested ==
  /\ \A t \in Tasks :
       /\ HoldsRegistry(t) <=> calls.task[t].pc \in {"inserting", "reading"}
       /\ calls.task[t].pc \in {"lock", "locked", "served"} => ~HoldsRegistry(t)
       /\ Cardinality(GuardsOf(t)) <= 1
       /\ GuardsOf(t) # {} <=> calls.task[t].pc \in {"locked", "served"}
       /\ GuardsOf(t) # {} => GuardsOf(t) = {calls.task[t].id}
  /\ calls.writer # 0 => calls.readers = {}
  /\ (\E t \in Tasks : calls.task[t].pc # "idle")
       => \E t \in Tasks : CanStep(t) /\ ENABLED TaskStep(t)

\* C39: the web handlers cannot deadlock: the registry's guard is dropped
\* before a session's guard is asked for, no handler holds two sessions'
\* guards, and every start, fetch and action request, on the same session or
\* on different ones, is answered in the end
C39_HandlersComplete ==
  /\ []LocksNeverNested
  /\ \A t \in Tasks : (calls.task[t].pc # "idle") ~> (calls.task[t].pc = "idle")

\* C39 witness: an action request waits for the guard of a session that
\* another request holds, after a request has been answered
C39_Witness ==
  \E t, u \in Tasks :
    /\ t # u
    /\ calls.task[t].pc = "lock"
    /\ calls.task[u].pc = "locked"
    /\ calls.task[t].id = calls.task[u].id
    /\ calls.task[t].handler = "apply_action"
    /\ last.ok > 0

\* C39: a start request waits for the registry while a fetch request reads it
C39_WriterWaitsReached ==
  \E t, u \in Tasks :
    /\ calls.task[t].pc = "write"
    /\ calls.task[u].pc = "reading"

\* C39: every request that arrived has been answered, one of them with
\* NotFound
C39_AllAnsweredReached ==
  /\ calls.total = MaxArrivals
  /\ \A t \in Tasks : calls.task[t].pc = "idle"
  /\ last.ok + last.not_found = MaxArrivals
  /\ last.not_found > 0

\* C39: two requests are under the guards of two sessions at once
C39_TwoSessionsReached ==
  \E t, u \in Tasks :
    /\ calls.task[t].pc = "locked" /\ calls.task[u].pc = "locked"
    /\ calls.task[t].id # calls.task[u].id




====
